---- MODULE Spec2Model ----
(***************************************************************************)
(* A model of the rnp package manager: the dependency resolver             *)
(* (DependencyResolver::resolve_dependencies), the parallel installer      *)
(* (install_packages_parallel / download_and_extract_package) and the      *)
(* tarball cache (PackageCache).                                           *)
(***************************************************************************)
EXTENDS Integers, Sequences, FiniteSets, TLC

VARIABLES
    \* ---- resolver (install.rs, DependencyResolver) ----
    root_package,       \* the name handed to resolve_dependencies
    locked_versions,    \* name -> Version, from package-lock.json
    workspace_packages, \* name -> Version of the registered workspaces
    avail,              \* registry: name -> the keys of metadata.versions (once fetched)
    info,               \* registry: <<name, version>> -> the dependency maps (once read)
    to_resolve,         \* the FIFO work queue
    resolved,           \* name -> [version, depth]
    resolved_packages,  \* name -> ResolvedPackage
    conflicts,          \* self.conflicts
    pc,                 \* "resolve" | "done" | "error" | "idle"
    packages,           \* the returned Vec<ResolvedPackage>
    snap,               \* history: at most one earlier (to_resolve, resolved) of this run
    runs,               \* history: the outcomes of the completed runs
    \* ---- installer (install.rs, install_packages_parallel) ----
    ipkgs,              \* the Vec<ResolvedPackage> handed to the installer
    im_pc,              \* the calling task: "spawn" | "join" | "done" | "error" | "idle"
    band,               \* the depth of the band being processed
    idx,                \* position in the band of the next spawn / awaited handle
    job,                \* name -> position of that package's spawned task
    permits,            \* permits left in the semaphore
    node_modules,       \* names whose node_modules/<name> directory is extracted
    bin_links,          \* shim -> package: the entries of node_modules/.bin
    written,            \* history: name -> the paths that package's job has written
    total_installed,    \* the counter the call returns
    ignore_scripts,     \* options.ignore_scripts
    ran,                \* history: name -> the lifecycle scripts started, in order
    bulk                \* the tasks of the plain packages of the deepest band, counted

rvars == <<root_package, locked_versions, workspace_packages, avail, info,
           to_resolve, resolved, resolved_packages, conflicts, pc, packages,
           snap, runs>>

ivars == <<ipkgs, im_pc, band, idx, job, permits, node_modules, bin_links,
           written, total_installed, ignore_scripts, ran, bulk>>

\* The package cache (cache.rs)
VARIABLES
    cache,              \* the files of ~/.rnp/cache: path -> [data, mtime]
    now,                \* the system clock std::time::SystemTime reads
    ret                 \* history: the last call of the cache and what it returned

cvars == <<cache, now, ret>>

\* One package job's fetch of its tarball (install.rs, lines 679-712)
VARIABLES
    fpkg,               \* the PackageInfo fields the fetch reads: integrity, shasum
    fpc,                \* position of the job in lines 679-741
    fbytes,             \* the bytes in hand: "none" or a blob
    downloads,          \* history: the GET requests the job has sent
    fhist               \* history: what the job has done so far

fvars == <<fpkg, fpc, fbytes, downloads, fhist>>

\* The commands over the project directory (install.rs, uninstall.rs)
VARIABLES
    cmd,                \* the command running: "install" | "ci" | "uninstall" | "none"
    pl_pc,              \* position of the command
    options,            \* InstallOptions: no_package_lock, workspace, hoist_strategy
    requested,          \* the package name(s) given on the command line
    graph,              \* the Vec<ResolvedPackage> the command works on
    manifests,          \* path -> the dependency maps of that package.json
    lockfile,           \* package-lock.json: <<>> when absent, else its content
    nested_dirs,        \* names n with a directory node_modules/<n>/node_modules
    links,              \* <<p, q>>: the link node_modules/<p>/node_modules/<q>
    phist               \* history of the commands run so far

pvars == <<cmd, pl_pc, options, requested, graph, manifests, lockfile,
           nested_dirs, links, phist>>

\* One requirement text and a version tried against it (install.rs, NpmVersionReq)
VARIABLES
    text,               \* the text handed to NpmVersionReq::parse
    parsed,             \* the Result of the parse: ok, raw, clauses
    probe               \* history: the versions tried and what matches returned

tvars == <<text, parsed, probe>>

\* The requests of the audit command (audit.rs)
VARIABLES
    posted              \* the payloads POSTed to the advisory endpoint, in order

avars == <<posted>>

\* Another rnp process inside save_tarball for the same key (cache.rs, line 49)
VARIABLES
    writer              \* its position in fs::write, its bytes, and whether the
                        \* file it opened is still the one at the path

wvars == <<writer>>

vars == <<rvars, ivars, cvars, fvars, pvars, tvars, avars, wvars>>

\* No call of the cache has been made.
NoCall ==
    [op |-> "idle", key |-> <<>>, expected |-> <<>>, max_age |-> 0, at |-> 0,
     before |-> <<>>, after |-> <<>>, result |-> "none", data |-> "none"]

IdleCache ==
    /\ cache = <<>>
    /\ now = 0
    /\ ret = NoCall

NoHistory ==
    [cached_bad |-> FALSE, invalidated |-> FALSE, fresh_bad |-> FALSE,
     saves |-> 0, saved |-> {}, rejected |-> {}, extracted |-> "none"]

IdleFetch ==
    /\ fpkg = <<>>
    /\ fpc = "idle"
    /\ fbytes = "none"
    /\ downloads = 0
    /\ fhist = NoHistory

NoOptions == [no_package_lock |-> FALSE, workspace |-> "", hoist_strategy |-> "safe"]

NoCommands ==
    [ran |-> <<>>, lock_writes |-> 0, manifest_writes |-> 0, start |-> <<>>,
     skipped |-> {}, installed |-> <<>>, last |-> "none", error |-> ""]

IdleText ==
    /\ text = <<>>
    /\ parsed = <<>>
    /\ probe = <<>>

IdleAudit == posted = <<>>

NoWriter == [pc |-> "idle", data |-> "none", linked |-> FALSE]

IdleWriter == writer = NoWriter

IdlePipeline ==
    /\ cmd = "none"
    /\ pl_pc = "idle"
    /\ options = NoOptions
    /\ requested = ""
    /\ graph = <<>>
    /\ manifests = <<>>
    /\ lockfile = <<>>
    /\ nested_dirs = {}
    /\ links = {}
    /\ phist = NoCommands

----------------------------------------------------------------------------
(* Bounds of the model *)

\* Work items deeper than this are not explored.
MaxDepth == 6

----------------------------------------------------------------------------
(* Versions and requirements *)

Names == {"A", "B", "C", "D"}

V100 == <<1, 0, 0>>
V200 == <<2, 0, 0>>
Versions == {V100, V200}

\* semver::Version ordering (no pre-release tags in the model)
VersionLess(a, b) ==
    \/ a[1] < b[1]
    \/ a[1] = b[1] /\ a[2] < b[2]
    \/ a[1] = b[1] /\ a[2] = b[2] /\ a[3] < b[3]

ReqAny == [op |-> "any", v |-> <<0, 0, 0>>]
Caret(v) == [op |-> "caret", v |-> v]

\* semver::VersionReq::matches for "*" and "^a.b.c"
CaretMatches(r, v) ==
    /\ ~VersionLess(v, r)
    /\ IF r[1] > 0 THEN v[1] = r[1]
       ELSE IF r[2] > 0 THEN v[1] = 0 /\ v[2] = r[2]
       ELSE v = r

\* NpmVersionReq::matches
Matches(req, v) ==
    \/ req.op = "any"
    \/ req.op = "caret" /\ CaretMatches(req.v, v)

\* the first element of matching_versions after the descending sort
MaxVersion(S) == CHOOSE v \in S : \A w \in S : w = v \/ VersionLess(w, v)

NoVersion == <<>>

\* A selection that does not look at the locked version.
FindHighestVersion(available, req, name) ==
    LET matching == {v \in available : Matches(req, v)}
    IN  IF matching = {} THEN NoVersion ELSE MaxVersion(matching)

\* DependencyResolver::find_best_version; NoVersion stands for the Err
FindBestVersion(available, req, name) ==
    LET matching == {v \in available : Matches(req, v)}
    IN  IF name \in DOMAIN locked_versions /\ locked_versions[name] \in matching
        THEN locked_versions[name]
        ELSE IF matching = {} THEN NoVersion
        ELSE MaxVersion(matching)

----------------------------------------------------------------------------
(* The registry documents the model draws from *)

Other1(n) == CASE n = "A" -> "B" [] n = "B" -> "C" [] OTHER -> "A"
Other2(n) == CASE n = "A" -> "C" [] n = "B" -> "A" [] OTHER -> "B"

EmptyMap == [x \in {} |-> ReqAny]
One(n, r) == [x \in {n} |-> r]
Two(n, r, m, s) == [x \in {n, m} |-> IF x = n THEN r ELSE s]

Deps(d, p, o) == [dependencies |-> d, peer_dependencies |-> p,
                  optional_dependencies |-> o]

\* The dependency maps a version of package n may declare: D is a leaf that B
\* and C may depend on, the others draw from maps over the other two names.
DepsMenu(n) ==
    IF n = "D" THEN {Deps(EmptyMap, EmptyMap, EmptyMap)} ELSE
    LET o1 == Other1(n)
        o2 == Other2(n)
    IN  { Deps(EmptyMap, EmptyMap, EmptyMap),
          Deps(EmptyMap, One(o1, Caret(V100)), EmptyMap),
          Deps(One(o1, Caret(V200)), EmptyMap, EmptyMap),
          Deps(One(o2, Caret(V100)), EmptyMap, EmptyMap),
          Deps(One(o2, Caret(V200)), EmptyMap, EmptyMap),
          Deps(Two(o1, Caret(V100), o2, Caret(V100)), EmptyMap, EmptyMap),
          Deps(One(o2, ReqAny), EmptyMap, One(o1, Caret(V200))) }
        \cup (IF n = "B" THEN {Deps(One("D", Caret(V100)), EmptyMap, EmptyMap)} ELSE {})
        \cup (IF n = "C" THEN {Deps(One("D", Caret(V200)), EmptyMap, EmptyMap)} ELSE {})

\* The version sets a registry document may hold.
AvailMenu == { {V100, V200}, {V100} }

NoMap == [x \in {} |-> V100]
LockMenu == { NoMap, [x \in {"A", "B"} |-> V100] }
WorkspaceMenu == { NoMap, [x \in {"C"} |-> V100] }

----------------------------------------------------------------------------
(* Resolver: fetch_package_metadata *)

NoDeps == Deps(EmptyMap, EmptyMap, EmptyMap)

\* The registry answers the same document every time it is asked: a name's
\* version keys and a version's dependency maps are drawn on first use.
AvailChoice(name) == IF name \in DOMAIN avail THEN {avail[name]} ELSE AvailMenu
InfoChoice(name, ver) ==
    IF <<name, ver>> \in DOMAIN info THEN {info[<<name, ver>>]} ELSE DepsMenu(name)

PackageInfo(name, ver, d, ws) ==
    [name |-> name, version |-> ver,
     dependencies |-> d.dependencies,
     peer_dependencies |-> d.peer_dependencies,
     optional_dependencies |-> d.optional_dependencies,
     is_workspace |-> ws]

\* DependencyResolver::fetch_package_metadata: the set of outcomes the call
\* can have, each with the registry as known afterwards.
FetchPackageMetadata(name, req) ==
    IF name \in DOMAIN workspace_packages /\ Matches(req, workspace_packages[name])
    THEN { [ok |-> TRUE,
            info |-> PackageInfo(name, workspace_packages[name], NoDeps, TRUE),
            avail |-> avail, known |-> info] }
    ELSE UNION { LET ver == FindBestVersion(av, req, name)
                     avail2 == (name :> av) @@ avail
                 IN  IF ver = NoVersion
                     THEN { [ok |-> FALSE,
                             info |-> PackageInfo(name, ver, NoDeps, FALSE),
                             avail |-> avail2, known |-> info] }
                     ELSE { [ok |-> TRUE,
                             info |-> PackageInfo(name, ver, d, FALSE),
                             avail |-> avail2,
                             known |-> (<<name, ver>> :> d) @@ info]
                            : d \in InfoChoice(name, ver) }
               : av \in AvailChoice(name) }

----------------------------------------------------------------------------
(* Resolver: resolve_dependencies *)

WorkItem(name, req, depth, optional) ==
    [name |-> name, req |-> req, depth |-> depth, optional |-> optional]

Perms(S) == {p \in [1..Cardinality(S) -> S] : \A i, j \in DOMAIN p : p[i] = p[j] => i = j}

\* One `for (name, req) in &map` loop of pushes: a HashMap is iterated in an
\* order that is not fixed across maps or runs.
PushOrders(map, depth, optional) ==
    { [i \in 1..Len(p) |-> WorkItem(p[i], map[p[i]], depth, optional)]
      : p \in Perms(DOMAIN map) }

\* The three push loops of one iteration, in their order in the code.
EnqueueOrders(pinfo, depth) ==
    { d \o p \o o : d \in PushOrders(pinfo.dependencies, depth + 1, FALSE),
                    p \in PushOrders(pinfo.peer_dependencies, depth + 1, FALSE),
                    o \in PushOrders(pinfo.optional_dependencies, depth + 1, TRUE) }

ConflictRecord(item) ==
    [kind |-> "conflict", name |-> item.name, req |-> item.req,
     version |-> resolved[item.name].version]
SkipRecord(item) ==
    [kind |-> "skip", name |-> item.name, req |-> item.req, version |-> NoVersion]

Looping == pc = "resolve" /\ to_resolve # <<>>

\* lines 276-280: the name is committed and the requirement matches
IsSatisfied(item) ==
    /\ item.name \in DOMAIN resolved
    /\ Matches(item.req, resolved[item.name].version)

\* lines 283-291: committed, not matching, and not deeper than the commitment
IsConflict(item) ==
    /\ item.name \in DOMAIN resolved
    /\ ~Matches(item.req, resolved[item.name].version)
    /\ item.depth <= resolved[item.name].depth

\* every other item falls through to the metadata fetch (line 295)
FallsThrough(item) == ~IsSatisfied(item) /\ ~IsConflict(item)

SkipSatisfied ==
    /\ Looping
    /\ IsSatisfied(Head(to_resolve))
    /\ to_resolve' = Tail(to_resolve)
    /\ UNCHANGED <<ivars, cvars, fvars, pvars, tvars, avars, wvars>>
    /\ UNCHANGED <<root_package, locked_versions, workspace_packages, avail, info,
                   resolved, resolved_packages, conflicts, pc, packages, snap, runs>>

\* A resolver that gives up at the first conflict.
ConflictAborts ==
    /\ Looping
    /\ IsConflict(Head(to_resolve))
    /\ pc' = "error"
    /\ UNCHANGED <<ivars, cvars, fvars, pvars, tvars, avars, wvars>>
    /\ UNCHANGED <<root_package, locked_versions, workspace_packages, avail, info,
                   to_resolve, resolved, resolved_packages, conflicts, packages, snap, runs>>

RecordConflict ==
    /\ Looping
    /\ IsConflict(Head(to_resolve))
    /\ conflicts' = Append(conflicts, ConflictRecord(Head(to_resolve)))
    /\ to_resolve' = Tail(to_resolve)
    /\ UNCHANGED <<ivars, cvars, fvars, pvars, tvars, avars, wvars>>
    /\ UNCHANGED <<root_package, locked_versions, workspace_packages, avail, info,
                   resolved, resolved_packages, pc, packages, snap, runs>>

\* line 314: resolved.insert(name, (version, depth))
InsertResolved(name, version, depth) ==
    (name :> [version |-> version, depth |-> depth]) @@ resolved

\* A resolver that keys the accepted packages by name and version.
InsertPackageByVersion(name, package) ==
    (<<name, package.info.version>> :> package) @@ resolved_packages

\* lines 317-324: resolved_packages.insert(name, ResolvedPackage), which
\* replaces the entry the name had
InsertPackage(name, package) == (name :> package) @@ resolved_packages

\* history: the configuration in which a committed name is first fetched again
Snapshot(item) ==
    IF snap = <<>> /\ item.name \in DOMAIN resolved
    THEN <<[q |-> to_resolve, r |-> resolved]>>
    ELSE snap

\* lines 295-338: fetch, commit and enqueue the edges
Commit ==
    /\ Looping
    /\ LET item == Head(to_resolve)
       IN  /\ FallsThrough(item)
           /\ item.depth < MaxDepth
           /\ \E f \in FetchPackageMetadata(item.name, item.req) :
                /\ f.ok
                /\ avail' = f.avail
                /\ info' = f.known
                /\ resolved' = InsertResolved(item.name, f.info.version, item.depth)
                /\ resolved_packages' =
                       InsertPackage(item.name,
                                     [info |-> f.info, depth |-> item.depth,
                                      optional |-> item.optional])
                /\ \E pushed \in EnqueueOrders(f.info, item.depth) :
                       to_resolve' = Tail(to_resolve) \o pushed
           /\ snap' = Snapshot(item)
    /\ UNCHANGED <<ivars, cvars, fvars, pvars, tvars, avars, wvars>>
    /\ UNCHANGED <<root_package, locked_versions, workspace_packages, conflicts,
                   pc, packages, runs>>

\* A resolver that propagates the failure of an optional item.
OptionalFailureAborts ==
    /\ Looping
    /\ LET item == Head(to_resolve)
       IN  /\ FallsThrough(item)
           /\ item.optional
           /\ \E f \in FetchPackageMetadata(item.name, item.req) :
                /\ ~f.ok
                /\ avail' = f.avail
                /\ info' = f.known
    /\ pc' = "error"
    /\ UNCHANGED <<ivars, cvars, fvars, pvars, tvars, avars, wvars>>
    /\ UNCHANGED <<root_package, locked_versions, workspace_packages, to_resolve,
                   resolved, resolved_packages, conflicts, packages, snap, runs>>

\* lines 301-309: the fetch of an optional item failed
SkipOptional ==
    /\ Looping
    /\ LET item == Head(to_resolve)
       IN  /\ FallsThrough(item)
           /\ item.optional
           /\ \E f \in FetchPackageMetadata(item.name, item.req) :
                /\ ~f.ok
                /\ avail' = f.avail
                /\ info' = f.known
           /\ conflicts' = Append(conflicts, SkipRecord(item))
           /\ to_resolve' = Tail(to_resolve)
    /\ UNCHANGED <<ivars, cvars, fvars, pvars, tvars, avars, wvars>>
    /\ UNCHANGED <<root_package, locked_versions, workspace_packages, resolved,
                   resolved_packages, pc, packages, snap, runs>>

\* line 310: the fetch of a non-optional item failed
FailResolve ==
    /\ Looping
    /\ LET item == Head(to_resolve)
       IN  /\ FallsThrough(item)
           /\ ~item.optional
           /\ \E f \in FetchPackageMetadata(item.name, item.req) :
                /\ ~f.ok
                /\ avail' = f.avail
                /\ info' = f.known
    /\ pc' = "error"
    /\ UNCHANGED <<ivars, cvars, fvars, pvars, tvars, avars, wvars>>
    /\ UNCHANGED <<root_package, locked_versions, workspace_packages, to_resolve,
                   resolved, resolved_packages, conflicts, packages, snap, runs>>

Values(f) == {f[x] : x \in DOMAIN f}

\* lines 342-343: the values of the map, in any order, stably sorted by depth
SortedByDepth(S) ==
    {s \in Perms(S) : \A i, j \in DOMAIN s : i < j => s[i].depth <= s[j].depth}

FinishResolve ==
    /\ pc = "resolve"
    /\ to_resolve = <<>>
    /\ packages' \in SortedByDepth(Values(resolved_packages))
    /\ pc' = "done"
    /\ UNCHANGED <<ivars, cvars, fvars, pvars, tvars, avars, wvars>>
    /\ UNCHANGED <<root_package, locked_versions, workspace_packages, avail, info,
                   to_resolve, resolved, resolved_packages, conflicts, snap, runs>>

RootItem == WorkItem(root_package, ReqAny, 0, FALSE)

\* The installer before install_packages_parallel is called.
IdleInstaller ==
    /\ ipkgs = <<>>
    /\ im_pc = "idle"
    /\ band = 0
    /\ idx = 1
    /\ job = <<>>
    /\ permits = 0
    /\ node_modules = {}
    /\ bin_links = <<>>
    /\ written = <<>>
    /\ total_installed = 0
    /\ ignore_scripts = FALSE
    /\ ran = <<>>
    /\ bulk = [todo |-> 0, waiting |-> 0, running |-> 0, done |-> 0]

InitResolve ==
    /\ root_package = "A"
    /\ locked_versions \in LockMenu
    /\ workspace_packages \in WorkspaceMenu
    /\ avail = [x \in {} |-> {}]
    /\ info = [x \in {} |-> NoDeps]
    /\ to_resolve = <<RootItem>>
    /\ resolved = [x \in {} |-> [version |-> V100, depth |-> 0]]
    /\ resolved_packages = [x \in {} |-> 0]
    /\ conflicts = <<>>
    /\ pc = "resolve"
    /\ packages = <<>>
    /\ snap = <<>>
    /\ runs = <<>>
    /\ IdleInstaller
    /\ IdleCache
    /\ IdleFetch
    /\ IdlePipeline
    /\ IdleText
    /\ IdleAudit
    /\ IdleWriter

NextResolve ==
    \/ SkipSatisfied
    \/ RecordConflict
    \/ Commit
    \/ SkipOptional
    \/ FailResolve
    \/ FinishResolve

SpecResolve == InitResolve /\ [][NextResolve]_vars

----------------------------------------------------------------------------
(* Two runs of the resolver against the same registry *)

Outcome(p) == [name |-> p.info.name, version |-> p.info.version,
               depth |-> p.depth, optional |-> p.optional]
ResultSet == {Outcome(packages[i]) : i \in DOMAIN packages}

\* A second call of resolve_dependencies with the same root, lock and registry
\* (a fresh DependencyResolver: empty queue, maps and conflict log).
Restart ==
    /\ pc = "done"
    /\ runs = <<>>
    /\ runs' = <<[result |-> ResultSet, conflicts |-> conflicts, again |-> snap # <<>>]>>
    /\ to_resolve' = <<RootItem>>
    /\ resolved' = [x \in {} |-> [version |-> V100, depth |-> 0]]
    /\ resolved_packages' = [x \in {} |-> 0]
    /\ conflicts' = <<>>
    /\ packages' = <<>>
    /\ snap' = <<>>
    /\ pc' = "resolve"
    /\ UNCHANGED <<ivars, cvars, fvars, pvars, tvars, avars, wvars>>
    /\ UNCHANGED <<root_package, locked_versions, workspace_packages, avail, info>>

InitTwice ==
    /\ InitResolve
    /\ locked_versions = NoMap
    /\ workspace_packages = NoMap

NextTwice == NextResolve \/ Restart

SpecTwice == InitTwice /\ [][NextTwice]_vars

----------------------------------------------------------------------------
(* Claims about the resolver *)

PackageNames(S) == {p.info.name : p \in S}
PackageSet == {packages[i] : i \in DOMAIN packages}
DependencyNames(pinfo) ==
    DOMAIN pinfo.dependencies \cup DOMAIN pinfo.peer_dependencies
        \cup DOMAIN pinfo.optional_dependencies

\* C1: at every moment of resolve_dependencies the accepted packages hold at
\* most one ResolvedPackage per package name, and so does the returned list:
\* its length is the number of distinct names in it.
C1_OnePerName ==
    /\ \A p, q \in Values(resolved_packages) : p.info.name = q.info.name => p = q
    /\ \A i, j \in DOMAIN packages :
           packages[i].info.name = packages[j].info.name => i = j

\* C1 witness: a run has returned two or more packages after fetching and
\* committing a name a second time.
C1_Witness == pc = "done" /\ snap # <<>> /\ Len(packages) >= 2

\* A configuration that equals the snapshot with every depth raised by k.
ShiftItem(item, k) == [item EXCEPT !.depth = @ + k]
ShiftQueue(q, k) == [i \in DOMAIN q |-> ShiftItem(q[i], k)]
ShiftResolved(r, k) == [n \in DOMAIN r |-> [r[n] EXCEPT !.depth = @ + k]]
Recurs ==
    /\ Looping
    /\ snap # <<>>
    /\ \E k \in 1..MaxDepth :
          /\ to_resolve = ShiftQueue(snap[1].q, k)
          /\ resolved = ShiftResolved(snap[1].r, k)

\* C2: resolve_dependencies terminates for every finite registry, cyclic ones
\* included. The loop reads only the queue and the committed (version, depth)
\* pairs and compares depths with each other, so a run that reaches an earlier
\* configuration of itself with every depth raised by the same k > 0 repeats
\* that stretch for ever; a terminating resolver never reaches one.
C2_Terminates == ~Recurs

\* The scenario of C3 with the requested package A as the root: A depends on
\* B ^1.0.0 and C ^1.0.0, C depends on B ^2.0.0, B has no dependencies.
ConflictScenario ==
    /\ "A" \in DOMAIN resolved_packages
    /\ "C" \in DOMAIN resolved_packages
    /\ resolved_packages["A"].info.dependencies =
           Two("B", Caret(V100), "C", Caret(V100))
    /\ resolved_packages["C"].info.dependencies = One("B", Caret(V200))
    /\ ~resolved_packages["C"].info.is_workspace
    /\ \A k \in DOMAIN info : k[1] = "B" => info[k] = NoDeps

\* C3: in the conflict scenario the result holds exactly one B, at 1.x, and
\* the conflict log holds exactly one record, which mentions B.
C3_ConflictScenario ==
    (pc = "done" /\ ConflictScenario) =>
        /\ Cardinality({p \in PackageSet : p.info.name = "B"}) = 1
        /\ \A p \in PackageSet : p.info.name = "B" => p.info.version[1] = 1
        /\ Cardinality({i \in DOMAIN conflicts : conflicts[i].name = "B"}) = 1

\* C4: every returned package of depth d > 0 has a returned package of depth
\* d - 1 that names it in dependencies, peerDependencies or
\* optionalDependencies.
C4_ParentOneLevelUp ==
    pc = "done" =>
        \A p \in PackageSet :
            p.depth > 0 =>
                \E q \in PackageSet :
                    /\ q.depth = p.depth - 1
                    /\ p.info.name \in DependencyNames(q.info)

\* C5: two runs with the same root, registry and locked versions return the
\* same set of (name, version, depth, optional) and the same conflict log.
C5_Deterministic ==
    (pc = "done" /\ runs # <<>>) =>
        /\ runs[1].result = ResultSet
        /\ runs[1].conflicts = conflicts

\* C5 without a second fetch of a committed name in either run: the two runs
\* returned different sets.
C5_OrderAlone ==
    /\ pc = "done"
    /\ runs # <<>>
    /\ ~runs[1].again
    /\ snap = <<>>
    /\ runs[1].result # ResultSet

----------------------------------------------------------------------------
(* Installer: the packages handed to install_packages_parallel *)

\* const MAX_CONCURRENT_DOWNLOADS: usize = 15;
MAX_CONCURRENT_DOWNLOADS == 15

\* Plain packages (no constraints, bins or scripts) added to the deepest band.
BulkCount == 16

Lifecycle == <<"preinstall", "install", "postinstall">>

\* A ResolvedPackage as the installer reads it. deps: the names in the three
\* dependency maps; constraint_ok: what validate_package_constraints answers
\* on this host; bins: the shim names of bin_entries; scripts: the keys of
\* lifecycle_scripts.
Pkg(name, depth, deps, flags, bins, scripts) ==
    [name |-> name, depth |-> depth, deps |-> deps,
     optional |-> flags.optional, constraint_ok |-> flags.constraint_ok,
     is_workspace |-> flags.is_workspace, bins |-> bins, scripts |-> scripts]

Flags(optional, ok, ws) ==
    [optional |-> optional, constraint_ok |-> ok, is_workspace |-> ws]
Plain == Flags(FALSE, TRUE, FALSE)

\* Depths and dependency names of lists the resolver returns for root A:
\* A -> {B, C} with B and C in one band, and the chain A -> B -> C.
Shapes ==
    { <<[n |-> "A", d |-> 0, deps |-> {"B", "C"}], [n |-> "B", d |-> 1, deps |-> {}],
        [n |-> "C", d |-> 1, deps |-> {}]>>,
      <<[n |-> "A", d |-> 0, deps |-> {"B", "C"}], [n |-> "B", d |-> 1, deps |-> {"C"}],
        [n |-> "C", d |-> 1, deps |-> {}]>>,
      <<[n |-> "A", d |-> 0, deps |-> {"B"}], [n |-> "B", d |-> 1, deps |-> {"C"}],
        [n |-> "C", d |-> 2, deps |-> {}]>>,
      <<[n |-> "A", d |-> 0, deps |-> {"B"}], [n |-> "B", d |-> 1, deps |-> {"C"}],
        [n |-> "C", d |-> 2, deps |-> {"A"}]>> }

BinMenu == { {}, {"x"} }
ScriptMenu ==
    { {}, {"preinstall", "postinstall"}, {"preinstall", "install", "postinstall"} }
FlagMenu == { Plain, Flags(TRUE, TRUE, FALSE), Flags(TRUE, FALSE, FALSE),
              Flags(FALSE, FALSE, FALSE), Flags(FALSE, TRUE, TRUE) }

InstallInputs ==
    { <<Pkg("A", sh[1].d, sh[1].deps, Plain, {}, sa),
        Pkg("B", sh[2].d, sh[2].deps, Plain, bb, sb),
        Pkg("C", sh[3].d, sh[3].deps, fc,
            IF fc.is_workspace THEN {} ELSE bc, IF fc.is_workspace THEN {} ELSE sc)>>
      : sh \in Shapes, sa \in ScriptMenu, sb \in ScriptMenu, sc \in ScriptMenu,
        bb \in BinMenu, bc \in BinMenu, fc \in FlagMenu }

----------------------------------------------------------------------------
(* Installer: install_packages_parallel, the calling task *)

PkgNames == {ipkgs[i].name : i \in DOMAIN ipkgs}
PkgOf(n) == CHOOSE p \in {ipkgs[i] : i \in DOMAIN ipkgs} : p.name = n

\* lines 593-601: the depth groups and their keys, deepest first
DepthKeys == {ipkgs[i].depth : i \in DOMAIN ipkgs}
IsAtDepth(p) == p.depth = band
BandPackages == SelectSeq(ipkgs, IsAtDepth)
MaxOf(S) == CHOOSE d \in S : \A e \in S : e <= d
DeepestBand == MaxOf(DepthKeys)
HasNextBand == \E d \in DepthKeys : d < band
NextBand == MaxOf({d \in DepthKeys : d < band})

Final == {"ok_true", "ok_false", "err"}
BulkInBand == band = DeepestBand /\ bulk.todo + bulk.waiting + bulk.running + bulk.done > 0

\* line 615: tokio::spawn of the next package of the band
Spawn ==
    /\ im_pc = "spawn"
    /\ idx <= Len(BandPackages)
    /\ job' = [job EXCEPT ![BandPackages[idx].name] = "spawned"]
    /\ IF idx = Len(BandPackages) /\ ~(BulkInBand /\ bulk.todo > 0)
       THEN im_pc' = "join" /\ idx' = 1
       ELSE im_pc' = "spawn" /\ idx' = idx + 1
    /\ UNCHANGED <<ipkgs, ignore_scripts, ran, band, permits, node_modules, bin_links, written,
                   total_installed, bulk>>
    /\ UNCHANGED <<rvars, cvars, fvars, pvars, tvars, avars, wvars>>

\* line 615 for one of the plain packages of the band
SpawnBulk ==
    /\ im_pc = "spawn"
    /\ idx > Len(BandPackages)
    /\ BulkInBand
    /\ bulk.todo > 0
    /\ bulk' = [bulk EXCEPT !.todo = @ - 1, !.waiting = @ + 1]
    /\ IF bulk.todo = 1 THEN im_pc' = "join" /\ idx' = 1
       ELSE im_pc' = "spawn" /\ idx' = idx
    /\ UNCHANGED <<ipkgs, ignore_scripts, ran, band, job, permits, node_modules, bin_links, written,
                   total_installed>>
    /\ UNCHANGED <<rvars, cvars, fvars, pvars, tvars, avars, wvars>>

\* line 603: the next iteration of `for depth in depths`, or line 639
LeaveBand ==
    IF HasNextBand
    THEN im_pc' = "spawn" /\ band' = NextBand /\ idx' = 1
    ELSE im_pc' = "done" /\ band' = band /\ idx' = idx

\* A join that returns as soon as the task has been spawned.
HandleExists(n) == job[n] # "none"

\* line 626: `handle.await` resolves once the task has ended
Completed(n) == job[n] \in Final

\* lines 625-632: await the next handle of the band; `??` returns the error
Join ==
    /\ im_pc = "join"
    /\ idx <= Len(BandPackages)
    /\ LET n == BandPackages[idx].name
       IN  /\ Completed(n)
           /\ IF job[n] = "err"
              THEN /\ im_pc' = "error"
                   /\ UNCHANGED <<band, idx, total_installed>>
              ELSE /\ total_installed' = total_installed + (IF job[n] = "ok_false" THEN 0 ELSE 1)
                   /\ IF idx = Len(BandPackages) /\ ~BulkInBand
                      THEN LeaveBand
                      ELSE im_pc' = "join" /\ band' = band /\ idx' = idx + 1
    /\ UNCHANGED <<ipkgs, ignore_scripts, ran, job, permits, node_modules, bin_links, written, bulk>>
    /\ UNCHANGED <<rvars, cvars, fvars, pvars, tvars, avars, wvars>>

\* lines 625-632 for the handles of the plain packages: all of them have ended
JoinBulk ==
    /\ im_pc = "join"
    /\ idx > Len(BandPackages)
    /\ BulkInBand
    /\ bulk.todo = 0 /\ bulk.waiting = 0 /\ bulk.running = 0
    /\ total_installed' = total_installed + bulk.done
    /\ LeaveBand
    /\ UNCHANGED <<ipkgs, ignore_scripts, ran, job, permits, node_modules, bin_links, written, bulk>>
    /\ UNCHANGED <<rvars, cvars, fvars, pvars, tvars, avars, wvars>>

----------------------------------------------------------------------------
(* Installer: one spawned task (lines 615-619) and download_and_extract_package *)

PackageDir(n) == <<"node_modules", n>>
BinPath(shim) == <<"node_modules", ".bin", shim>>

\* A semaphore that never makes a task wait.
PermitAlways == TRUE

\* line 616: semaphore.acquire() returns when a permit is left
PermitAvailable == permits > 0

JobUnchanged == UNCHANGED <<ipkgs, im_pc, band, idx, total_installed, ignore_scripts, bulk>>

\* The task ends: its result is set and `_permit` is dropped.
EndJob(n, result) ==
    /\ job' = [job EXCEPT ![n] = result]
    /\ permits' = permits + 1

Acquire(n) ==
    /\ job[n] = "spawned"
    /\ PermitAvailable
    /\ permits' = permits - 1
    /\ job' = [job EXCEPT ![n] = "validate"]
    /\ UNCHANGED <<node_modules, bin_links, written>>
    /\ UNCHANGED ran
    /\ JobUnchanged /\ UNCHANGED <<rvars, cvars, fvars, pvars, tvars, avars, wvars>>

\* lines 650-656 pass; lines 658 and 676 choose the branch
ValidateOk(n) ==
    /\ job[n] = "validate"
    /\ PkgOf(n).constraint_ok
    /\ job' = [job EXCEPT ![n] = IF PkgOf(n).is_workspace THEN "workspace" ELSE "fetch"]
    /\ UNCHANGED <<permits, node_modules, bin_links, written>>
    /\ UNCHANGED ran
    /\ JobUnchanged /\ UNCHANGED <<rvars, cvars, fvars, pvars, tvars, avars, wvars>>

\* lines 651-654: an optional package that fails its constraints is skipped
ValidateSkip(n) ==
    /\ job[n] = "validate"
    /\ ~PkgOf(n).constraint_ok
    /\ PkgOf(n).optional
    /\ EndJob(n, "ok_false")
    /\ UNCHANGED <<node_modules, bin_links, written>>
    /\ UNCHANGED ran
    /\ JobUnchanged /\ UNCHANGED <<rvars, cvars, fvars, pvars, tvars, avars, wvars>>

\* line 655
ValidateFail(n) ==
    /\ job[n] = "validate"
    /\ ~PkgOf(n).constraint_ok
    /\ ~PkgOf(n).optional
    /\ EndJob(n, "err")
    /\ UNCHANGED <<node_modules, bin_links, written>>
    /\ UNCHANGED ran
    /\ JobUnchanged /\ UNCHANGED <<rvars, cvars, fvars, pvars, tvars, avars, wvars>>

\* lines 658-673: a workspace package is linked into node_modules/<name>
LinkWorkspace(n) ==
    /\ job[n] = "workspace"
    /\ node_modules' = node_modules \cup {n}
    /\ written' = [written EXCEPT ![n] = @ \cup {PackageDir(n)}]
    /\ EndJob(n, "ok_true")
    /\ UNCHANGED bin_links
    /\ UNCHANGED ran
    /\ JobUnchanged /\ UNCHANGED <<rvars, cvars, fvars, pvars, tvars, avars, wvars>>

\* lines 676-712: the bytes come from the cache or the registry and verify
FetchOk(n) ==
    /\ job[n] = "fetch"
    /\ job' = [job EXCEPT ![n] = "extract"]
    /\ UNCHANGED <<permits, node_modules, bin_links, written>>
    /\ UNCHANGED ran
    /\ JobUnchanged /\ UNCHANGED <<rvars, cvars, fvars, pvars, tvars, avars, wvars>>

\* lines 690-693 and 701-705: the download or the verification fails
FetchFail(n) ==
    /\ job[n] = "fetch"
    /\ EndJob(n, "err")
    /\ UNCHANGED <<node_modules, bin_links, written>>
    /\ UNCHANGED ran
    /\ JobUnchanged /\ UNCHANGED <<rvars, cvars, fvars, pvars, tvars, avars, wvars>>

\* lines 714-741: the archive is unpacked under node_modules/<name>
Extract(n) ==
    /\ job[n] = "extract"
    /\ node_modules' = node_modules \cup {n}
    /\ written' = [written EXCEPT ![n] = @ \cup {PackageDir(n)}]
    /\ job' = [job EXCEPT ![n] = "bin"]
    /\ UNCHANGED <<permits, bin_links>>
    /\ UNCHANGED ran
    /\ JobUnchanged /\ UNCHANGED <<rvars, cvars, fvars, pvars, tvars, avars, wvars>>

\* create_bin_links: the shims of the package that are not linked yet
ShimsLeft(n) == {s \in PkgOf(n).bins : BinPath(s) \notin written[n]}

\* The entry the loop of line 1235 is at (the menus give a package at most one).
NextShim(n) == CHOOSE s \in ShimsLeft(n) : TRUE

\* lines 1228-1230 and the end of the loop of line 1235
BinDone(n) ==
    /\ job[n] = "bin"
    /\ ShimsLeft(n) = {}
    /\ job' = [job EXCEPT ![n] = "scripts"]
    /\ UNCHANGED <<permits, node_modules, bin_links, written>>
    /\ UNCHANGED ran
    /\ JobUnchanged /\ UNCHANGED <<rvars, cvars, fvars, pvars, tvars, avars, wvars>>

\* line 1239: dst.exists()
BinCheck(n) ==
    /\ job[n] = "bin"
    /\ ShimsLeft(n) # {}
    /\ job' = [job EXCEPT ![n] = IF NextShim(n) \in DOMAIN bin_links THEN "bin_remove"
                                  ELSE "bin_link"]
    /\ UNCHANGED <<permits, node_modules, bin_links, written>>
    /\ UNCHANGED ran
    /\ JobUnchanged /\ UNCHANGED <<rvars, cvars, fvars, pvars, tvars, avars, wvars>>

Without(f, x) == [y \in DOMAIN f \ {x} |-> f[y]]

\* line 1240: fs::remove_file(&dst)?, which fails when the entry is gone
BinRemove(n) ==
    /\ job[n] = "bin_remove"
    /\ LET s == NextShim(n) IN
          IF s \in DOMAIN bin_links
          THEN /\ bin_links' = Without(bin_links, s)
               /\ job' = [job EXCEPT ![n] = "bin_link"]
               /\ written' = written
               /\ permits' = permits
          ELSE /\ EndJob(n, "err")
               /\ UNCHANGED <<bin_links, written>>
    /\ UNCHANGED node_modules
    /\ UNCHANGED ran
    /\ JobUnchanged /\ UNCHANGED <<rvars, cvars, fvars, pvars, tvars, avars, wvars>>

\* line 1245: symlink(&src, &dst)?, which fails when the entry exists
BinLink(n) ==
    /\ job[n] = "bin_link"
    /\ LET s == NextShim(n) IN
          IF s \in DOMAIN bin_links
          THEN /\ EndJob(n, "err")
               /\ UNCHANGED <<bin_links, written>>
          ELSE /\ bin_links' = (s :> n) @@ bin_links
               /\ written' = [written EXCEPT ![n] = @ \cup {BinPath(s)}]
               /\ job' = [job EXCEPT ![n] = "bin"]
               /\ permits' = permits
    /\ UNCHANGED node_modules
    /\ UNCHANGED ran
    /\ JobUnchanged /\ UNCHANGED <<rvars, cvars, fvars, pvars, tvars, avars, wvars>>

\* run_lifecycle_scripts: the scripts of the package still to run, and the
\* next one in the order of line 1276
ScriptsLeft(n) ==
    {Lifecycle[i] : i \in {j \in DOMAIN Lifecycle :
        /\ Lifecycle[j] \in PkgOf(n).scripts
        /\ \A k \in DOMAIN ran[n] : ran[n][k] # Lifecycle[j]}}
\* A loop that takes the scripts in the reverse order.
LastScript(n) ==
    Lifecycle[CHOOSE i \in DOMAIN Lifecycle :
        /\ Lifecycle[i] \in ScriptsLeft(n)
        /\ \A j \in DOMAIN Lifecycle : Lifecycle[j] \in ScriptsLeft(n) => j <= i]
NextScript(n) ==
    Lifecycle[CHOOSE i \in DOMAIN Lifecycle :
        /\ Lifecycle[i] \in ScriptsLeft(n)
        /\ \A j \in DOMAIN Lifecycle : Lifecycle[j] \in ScriptsLeft(n) => i <= j]

\* lines 1272-1274, or the loop of line 1276 is through: Ok(true) at line 746
ScriptsDone(n) ==
    /\ job[n] = "scripts"
    /\ ignore_scripts \/ ScriptsLeft(n) = {}
    /\ EndJob(n, "ok_true")
    /\ UNCHANGED <<node_modules, bin_links, written, ran>>
    /\ JobUnchanged /\ UNCHANGED <<rvars, cvars, fvars, pvars, tvars, avars, wvars>>

\* lines 1284-1291: the shell running the next script is started
ScriptStart(n) ==
    /\ job[n] = "scripts"
    /\ ~ignore_scripts
    /\ ScriptsLeft(n) # {}
    /\ ran' = [ran EXCEPT ![n] = Append(@, NextScript(n))]
    /\ job' = [job EXCEPT ![n] = "in_script"]
    /\ UNCHANGED <<permits, node_modules, bin_links, written>>
    /\ JobUnchanged /\ UNCHANGED <<rvars, cvars, fvars, pvars, tvars, avars, wvars>>

\* line 1303: the script exits with status zero
ScriptExitOk(n) ==
    /\ job[n] = "in_script"
    /\ job' = [job EXCEPT ![n] = "scripts"]
    /\ UNCHANGED <<permits, node_modules, bin_links, written, ran>>
    /\ JobUnchanged /\ UNCHANGED <<rvars, cvars, fvars, pvars, tvars, avars, wvars>>

\* lines 1303-1309: the script exits with another status
ScriptExitFail(n) ==
    /\ job[n] = "in_script"
    /\ EndJob(n, "err")
    /\ UNCHANGED <<node_modules, bin_links, written, ran>>
    /\ JobUnchanged /\ UNCHANGED <<rvars, cvars, fvars, pvars, tvars, avars, wvars>>

\* lines 616-618 for a plain package: the permit, then the whole of
\* download_and_extract_package
BulkAcquire ==
    /\ bulk.waiting > 0
    /\ PermitAvailable
    /\ permits' = permits - 1
    /\ bulk' = [bulk EXCEPT !.waiting = @ - 1, !.running = @ + 1]
    /\ UNCHANGED <<ipkgs, im_pc, band, idx, job, node_modules, bin_links, written,
                   total_installed, ignore_scripts, ran>>
    /\ UNCHANGED <<rvars, cvars, fvars, pvars, tvars, avars, wvars>>

\* A plain package's task that ends and keeps its permit.
BulkFinishKeepingPermit ==
    /\ bulk.running > 0
    /\ bulk' = [bulk EXCEPT !.running = @ - 1, !.done = @ + 1]
    /\ UNCHANGED <<ipkgs, im_pc, band, idx, job, permits, node_modules, bin_links, written,
                   total_installed, ignore_scripts, ran>>
    /\ UNCHANGED <<rvars, cvars, fvars, pvars, tvars, avars, wvars>>

BulkFinish ==
    /\ bulk.running > 0
    /\ permits' = permits + 1
    /\ bulk' = [bulk EXCEPT !.running = @ - 1, !.done = @ + 1]
    /\ UNCHANGED <<ipkgs, im_pc, band, idx, job, node_modules, bin_links, written,
                   total_installed, ignore_scripts, ran>>
    /\ UNCHANGED <<rvars, cvars, fvars, pvars, tvars, avars, wvars>>

----------------------------------------------------------------------------
(* Installer: specifications *)

IdleResolver ==
    /\ root_package = "A"
    /\ locked_versions = NoMap
    /\ workspace_packages = NoMap
    /\ avail = [x \in {} |-> {}]
    /\ info = [x \in {} |-> NoDeps]
    /\ to_resolve = <<>>
    /\ resolved = [x \in {} |-> [version |-> V100, depth |-> 0]]
    /\ resolved_packages = [x \in {} |-> 0]
    /\ conflicts = <<>>
    /\ pc = "idle"
    /\ packages = <<>>
    /\ snap = <<>>
    /\ runs = <<>>

\* install_packages_parallel is entered with `list` (lines 577-601)
EnterInstall(list) ==
    /\ ipkgs = list
    /\ im_pc = "spawn"
    /\ band = DeepestBand
    /\ idx = 1
    /\ job = [n \in PkgNames |-> "none"]
    /\ permits = MAX_CONCURRENT_DOWNLOADS
    /\ node_modules = {}
    /\ bin_links = [x \in {} |-> "A"]
    /\ written = [n \in PkgNames |-> {}]
    /\ total_installed = 0
    /\ ran = [n \in PkgNames |-> <<>>]

InitInstall ==
    /\ IdleResolver
    /\ IdleCache
    /\ IdleFetch
    /\ IdlePipeline
    /\ IdleText
    /\ IdleAudit
    /\ IdleWriter
    /\ \E list \in InstallInputs : EnterInstall(list)
    /\ ignore_scripts \in BOOLEAN
    /\ bulk = [todo |-> 0, waiting |-> 0, running |-> 0, done |-> 0]

NextInstall ==
    \/ Spawn
    \/ Join
    \/ \E n \in PkgNames : Acquire(n)
    \/ \E n \in PkgNames : ValidateOk(n)
    \/ \E n \in PkgNames : ValidateSkip(n)
    \/ \E n \in PkgNames : ValidateFail(n)
    \/ \E n \in PkgNames : LinkWorkspace(n)
    \/ \E n \in PkgNames : FetchOk(n)
    \/ \E n \in PkgNames : FetchFail(n)
    \/ \E n \in PkgNames : Extract(n)
    \/ \E n \in PkgNames : BinDone(n)
    \/ \E n \in PkgNames : BinCheck(n)
    \/ \E n \in PkgNames : BinRemove(n)
    \/ \E n \in PkgNames : BinLink(n)
    \/ \E n \in PkgNames : ScriptsDone(n)
    \/ \E n \in PkgNames : ScriptStart(n)
    \/ \E n \in PkgNames : ScriptExitOk(n)
    \/ \E n \in PkgNames : ScriptExitFail(n)

SpecInstall == InitInstall /\ [][NextInstall]_vars

\* A band wider than the semaphore: the root A, and B with BulkCount plain
\* packages at depth 1.
InitWide ==
    /\ IdleResolver
    /\ IdleCache
    /\ IdleFetch
    /\ IdlePipeline
    /\ IdleText
    /\ IdleAudit
    /\ IdleWriter
    /\ EnterInstall(<<Pkg("A", 0, {"B"}, Plain, {}, {}), Pkg("B", 1, {}, Plain, {}, {})>>)
    /\ ignore_scripts = FALSE
    /\ bulk = [todo |-> BulkCount, waiting |-> 0, running |-> 0, done |-> 0]

NextWide ==
    \/ Spawn
    \/ SpawnBulk
    \/ Join
    \/ JoinBulk
    \/ BulkAcquire
    \/ BulkFinish
    \/ \E n \in PkgNames : Acquire(n)
    \/ \E n \in PkgNames : ValidateOk(n)
    \/ \E n \in PkgNames : FetchOk(n)
    \/ \E n \in PkgNames : FetchFail(n)
    \/ \E n \in PkgNames : Extract(n)
    \/ \E n \in PkgNames : BinDone(n)
    \/ \E n \in PkgNames : ScriptsDone(n)

SpecWide == InitWide /\ [][NextWide]_vars

----------------------------------------------------------------------------
(* The package cache: cache.rs *)

\* The clock values the model lets SystemTime take.
MaxClock == 3

\* The (name, version) pairs cached, the tarball bytes, and the ages allowed.
CachedPackages == {<<"A", V100>>, <<"B", V100>>}
Blobs == {"tgz1", "tgz2"}
MaxAgeMenu == {0, 2}

\* cache_key: the hex SHA-256 of "name@version", one key per pair.
cache_key(package_name, version) == <<package_name, "@", version>>

\* tarball_path: <cache_dir>/<key>.tgz
tarball_path(package_name, version) == <<cache_key(package_name, version), ".tgz">>

\* format!("{:x}", Sha1(data)): lower-case hex digits
Sha1Hex(data) ==
    CASE data = "tgz1" -> <<"a", "9">>
      [] data = "tgz2" -> <<"c", "4">>
      [] data = "" -> <<"d", "a">>
      [] data = "tgz1_cut" -> <<"e", "7">>
      [] data = "tgz2_cut" -> <<"f", "1">>
      [] data = "tgz1_tgz2" -> <<"5", "b">>
      [] data = "tgz2_tgz1" -> <<"8", "d">>
      [] OTHER -> <<"0", "0">>

\* The shasum of the registry metadata: absent, or hex digits in either case.
NoSha == <<>>
ExpectedMenu == {NoSha, <<"a", "9">>, <<"A", "9">>, <<"C", "4">>, <<"c", "9">>}

ToAsciiLower(ch) ==
    CASE ch = "A" -> "a"
      [] ch = "C" -> "c"
      [] OTHER -> ch

\* str::eq_ignore_ascii_case
eq_ignore_ascii_case(a, b) ==
    /\ Len(a) = Len(b)
    /\ \A i \in DOMAIN a : ToAsciiLower(a[i]) = ToAsciiLower(b[i])

verify_sha1_checksum(data, expected_sha1) ==
    eq_ignore_ascii_case(Sha1Hex(data), expected_sha1)

\* SystemTime::elapsed: an error when the time lies after the clock's reading
Elapsed(modified) ==
    IF modified > now THEN [ok |-> FALSE, age |-> 0]
    ELSE [ok |-> TRUE, age |-> now - modified]

\* is_fresh: Err when elapsed() fails, else Ok(age <= max_age)
is_fresh(path, max_age) ==
    LET e == Elapsed(cache[path].mtime)
    IN  [ok |-> e.ok, fresh |-> e.ok /\ e.age <= max_age]

\* fs::remove_file(path) when the path exists
Removed(path) == [q \in DOMAIN cache \ {path} |-> cache[q]]

Returned(op, path, expected, max_age, result, data) ==
    [op |-> op, key |-> path, expected |-> expected, max_age |-> max_age, at |-> now,
     before |-> cache, after |-> cache', result |-> result, data |-> data]

\* save_tarball: fs::write creates or replaces the file, modified now
SaveTarball(package_name, version, data) ==
    LET path == tarball_path(package_name, version) IN
    /\ cache' = (path :> [data |-> data, mtime |-> now]) @@ cache
    /\ ret' = Returned("save", path, NoSha, 0, "ok", "none")
    /\ UNCHANGED now

\* save_tarball called on its own
save_tarball(package_name, version, data) ==
    /\ SaveTarball(package_name, version, data)
    /\ UNCHANGED <<rvars, ivars, fvars, pvars, tvars, avars, wvars>>

\* invalidate_tarball
InvalidateTarball(package_name, version) ==
    LET path == tarball_path(package_name, version) IN
    /\ cache' = IF path \in DOMAIN cache THEN Removed(path) ELSE cache
    /\ ret' = Returned("invalidate", path, NoSha, 0, "ok", "none")
    /\ UNCHANGED now

\* invalidate_tarball called on its own
invalidate_tarball(package_name, version) ==
    /\ InvalidateTarball(package_name, version)
    /\ UNCHANGED <<rvars, ivars, fvars, pvars, tvars, avars, wvars>>

\* get_valid_tarball, lines 54-80
GetValidTarball(package_name, version, expected_sha1, max_age) ==
    LET path == tarball_path(package_name, version) IN
    /\ IF path \notin DOMAIN cache
       THEN \* lines 62-64
            /\ cache' = cache
            /\ ret' = Returned("get", path, expected_sha1, max_age, "none", "none")
       ELSE IF ~is_fresh(path, max_age).ok
       THEN \* line 66: `?` returns the error of is_fresh
            /\ cache' = cache
            /\ ret' = Returned("get", path, expected_sha1, max_age, "err", "none")
       ELSE IF ~is_fresh(path, max_age).fresh
       THEN \* lines 67-68
            /\ cache' = Removed(path)
            /\ ret' = Returned("get", path, expected_sha1, max_age, "none", "none")
       ELSE IF expected_sha1 # NoSha /\ ~verify_sha1_checksum(cache[path].data, expected_sha1)
       THEN \* lines 75-76
            /\ cache' = Removed(path)
            /\ ret' = Returned("get", path, expected_sha1, max_age, "none", "none")
       ELSE \* line 79
            /\ cache' = cache
            /\ ret' = Returned("get", path, expected_sha1, max_age, "some", cache[path].data)
    /\ UNCHANGED now

\* get_valid_tarball called on its own
get_valid_tarball(package_name, version, expected_sha1, max_age) ==
    /\ GetValidTarball(package_name, version, expected_sha1, max_age)
    /\ UNCHANGED <<rvars, ivars, fvars, pvars, tvars, avars, wvars>>

\* The system clock moves on.
Tick ==
    /\ now < MaxClock
    /\ now' = now + 1
    /\ UNCHANGED <<cache, ret>>
    /\ UNCHANGED <<rvars, ivars, fvars, pvars, tvars, avars, wvars>>

\* The system clock is set back: SystemTime is not monotonic.
ClockSetBack ==
    /\ now > 0
    /\ now' \in 0..(now - 1)
    /\ UNCHANGED <<cache, ret>>
    /\ UNCHANGED <<rvars, ivars, fvars, pvars, tvars, avars, wvars>>

InitCache ==
    /\ IdleResolver
    /\ IdleInstaller
    /\ IdleCache
    /\ IdleFetch
    /\ IdlePipeline
    /\ IdleText
    /\ IdleAudit
    /\ IdleWriter

NextCache ==
    \/ \E p \in CachedPackages, d \in Blobs : save_tarball(p[1], p[2], d)
    \/ \E p \in CachedPackages : invalidate_tarball(p[1], p[2])
    \/ \E p \in CachedPackages, e \in ExpectedMenu, a \in MaxAgeMenu :
           get_valid_tarball(p[1], p[2], e, a)
    \/ Tick
    \/ ClockSetBack

SpecCache == InitCache /\ [][NextCache]_vars

----------------------------------------------------------------------------
(* Claims about the installer *)

\* The tasks that hold a semaphore permit: inside download_and_extract_package.
Holding(n) == job[n] \notin ({"none", "spawned"} \cup Final)
InFlight == Cardinality({n \in PkgNames : Holding(n)}) + bulk.running
Started(n) == job[n] # "none"

\* C6: at every moment at most MAX_CONCURRENT_DOWNLOADS (15) tasks are inside
\* download_and_extract_package, however many packages the band holds.
C6_AtMostFifteenInFlight == InFlight <= MAX_CONCURRENT_DOWNLOADS

\* C6 witness: 15 tasks hold a permit while a spawned task waits for one.
C6_Witness ==
    /\ InFlight = MAX_CONCURRENT_DOWNLOADS
    /\ bulk.waiting > 0 \/ \E n \in PkgNames : job[n] = "spawned"

\* C7: a task of a package of depth d is spawned only when the task of every
\* package of greater depth has ended (bands go in descending depth order).
C7_DepthBandBarrier ==
    \A p, q \in PkgNames :
        (PkgOf(q).depth > PkgOf(p).depth /\ Started(p)) => job[q] \in Final

\* C7 witness: the root's task holds a permit after the two tasks of the
\* band below it have extracted and ended.
C7_Witness ==
    /\ PkgOf("B").depth = PkgOf("C").depth
    /\ Holding("A")
    /\ written["B"] # {} /\ written["C"] # {}

\* The resolved packages n depends on, directly or transitively.
DepStep(S) == S \cup UNION {PkgOf(m).deps \cap PkgNames : m \in S}
RECURSIVE DepClosure(_)
DepClosure(S) == IF DepStep(S) = S THEN S ELSE DepClosure(DepStep(S))
TransitiveDeps(n) == DepClosure(PkgOf(n).deps \cap PkgNames)

\* C8: while a lifecycle script of a package runs, every resolved package it
\* depends on, directly or transitively, is extracted into node_modules.
C8_DepsExtractedBeforeScripts ==
    \A n \in PkgNames :
        job[n] = "in_script" => TransitiveDeps(n) \subseteq node_modules

IsUnder(path, n) == Len(path) >= 2 /\ path[1] = "node_modules" /\ path[2] = n
IsBinPath(path) == IsUnder(path, ".bin")
Extracting(n) == job[n] \in {"none", "spawned", "validate", "fetch", "extract"}

\* C9: no two tasks that run at the same time write the same path: a task
\* writes only under node_modules/<its name>/, and node_modules/.bin/<shim>
\* is written only when no task has extraction left to do.
C9_NoSharedPath ==
    /\ \A n, m \in PkgNames :
          (n # m /\ Holding(n) /\ Holding(m)) => written[n] \cap written[m] = {}
    /\ \A n \in PkgNames : \A path \in written[n] :
          \/ IsUnder(path, n)
          \/ IsBinPath(path) /\ \A m \in PkgNames : ~Extracting(m)

\* C8 in a list without cycles: B and C share a band, B depends on C, and a
\* script of B runs while C is not extracted.
C8_SameBand ==
    /\ PkgOf("B").depth = PkgOf("C").depth
    /\ "C" \in PkgOf("B").deps
    /\ "A" \notin TransitiveDeps("B")
    /\ job["B"] = "in_script"
    /\ "C" \notin node_modules

\* C9: two tasks holding permits have both written node_modules/.bin/x.
C9_Race ==
    \E n, m \in PkgNames :
        /\ n # m /\ Holding(n) /\ Holding(m)
        /\ BinPath("x") \in written[n] \cap written[m]

----------------------------------------------------------------------------
(* Claims about the cache *)

BlobExisted == ret.key \in DOMAIN ret.before
AgeOk == ret.at - ret.before[ret.key].mtime <= ret.max_age
ShaOk ==
    \/ ret.expected = NoSha
    \/ eq_ignore_ascii_case(Sha1Hex(ret.before[ret.key].data), ret.expected)

\* C10: get_valid_tarball returns a blob only if the blob exists, its age is at
\* most max_age and, when a SHA-1 is expected, its SHA-1 equals it whatever the
\* case of the digits; when the blob exists and fails the age or the SHA-1
\* check it is deleted and None is returned; when no blob exists None is
\* returned and the cache is unchanged.
C10_GetValidTarball ==
    ret.op = "get" =>
        /\ ret.result = "some" =>
              /\ BlobExisted /\ AgeOk /\ ShaOk
              /\ ret.data = ret.before[ret.key].data
        /\ (BlobExisted /\ (~AgeOk \/ ~ShaOk)) =>
              /\ ret.result = "none"
              /\ ret.key \notin DOMAIN ret.after
        /\ ~BlobExisted =>
              /\ ret.result = "none"
              /\ ret.after = ret.before

\* C10: a call on a blob modified after the clock's reading, whose SHA-1 is not
\* the expected one, returned an error and left the blob in the cache.
C10_FutureMtime ==
    /\ ret.op = "get"
    /\ BlobExisted
    /\ ret.before[ret.key].mtime > ret.at
    /\ ~ShaOk
    /\ ret.result = "err"
    /\ ret.key \in DOMAIN ret.after

----------------------------------------------------------------------------
(* One package job's fetch: download_and_extract_package, lines 679-741 *)

\* const CACHE_MAX_AGE (seven days), in the clock units of the model.
CACHE_MAX_AGE == 2

\* GET requests of one job the model follows.
MaxDownloads == 3

\* The package the job installs.
FetchName == "A"
FetchVersion == V100
FetchPath == tarball_path(FetchName, FetchVersion)

\* base64 of Sha512(data)
Sha512Base64(data) ==
    CASE data = "tgz1" -> "b64-1"
      [] data = "tgz2" -> "b64-2"
      [] data = "" -> "b64-0"
      [] data = "tgz1_cut" -> "b64-3"
      [] data = "tgz2_cut" -> "b64-4"
      [] data = "tgz1_tgz2" -> "b64-5"
      [] data = "tgz2_tgz1" -> "b64-6"
      [] OTHER -> "b64-7"

\* The dist.integrity of the metadata: absent, the SHA-512 of a blob, or a
\* string of another algorithm.
IntegrityMenu == {NoSha, <<"sha512-", "b64-1">>, <<"sha1-", "b64-1">>}

\* verify_integrity_sha512: the prefix is stripped, the rest decoded and compared
verify_integrity_sha512(data, integrity) ==
    /\ Len(integrity) = 2
    /\ integrity[1] = "sha512-"
    /\ integrity[2] = Sha512Base64(data)

\* A check that also consults shasum when integrity is set.
VerifyBoth(package, data) ==
    /\ package.integrity # NoSha => verify_integrity_sha512(data, package.integrity)
    /\ package.shasum # NoSha => verify_sha1_checksum(data, package.shasum)

\* verify_tarball_integrity: TRUE stands for Ok(())
verify_tarball_integrity(package, data) ==
    IF package.integrity # NoSha
    THEN verify_integrity_sha512(data, package.integrity)
    ELSE IF package.shasum # NoSha
    THEN verify_sha1_checksum(data, package.shasum)
    ELSE TRUE

\* fs::remove_file takes the name away from a file another process holds open:
\* what that process writes afterwards is not seen at the path.
Unlinked ==
    writer' = IF FetchPath \in DOMAIN cache /\ FetchPath \notin DOMAIN cache'
              THEN [writer EXCEPT !.linked = FALSE]
              ELSE writer

FetchUnchanged ==
    /\ UNCHANGED <<rvars, ivars, pvars, tvars, avars>>
    /\ Unlinked

\* lines 680-685: cache.get_valid_tarball(name, version, shasum, CACHE_MAX_AGE)?
FetchFromCache ==
    /\ fpc = "start"
    /\ GetValidTarball(FetchName, FetchVersion, fpkg.shasum, CACHE_MAX_AGE)
    /\ fpc' = CASE ret'.result = "err" -> "failed"
                [] ret'.result = "some" -> "verify_cached"
                [] OTHER -> "download"
    /\ fbytes' = ret'.data
    /\ UNCHANGED <<fpkg, downloads, fhist>>
    /\ FetchUnchanged

\* lines 686-689: the cached bytes verify, or the entry is invalidated
VerifyCached ==
    /\ fpc = "verify_cached"
    /\ IF verify_tarball_integrity(fpkg, fbytes)
       THEN /\ fpc' = "extract"
            /\ UNCHANGED <<fbytes, fhist, cvars>>
       ELSE /\ InvalidateTarball(FetchName, FetchVersion)
            /\ fpc' = "download"
            /\ fbytes' = "none"
            /\ fhist' = [fhist EXCEPT !.cached_bad = TRUE,
                                      !.rejected = @ \cup {fbytes},
                                      !.invalidated = FetchPath \notin DOMAIN cache']
    /\ UNCHANGED <<fpkg, downloads>>
    /\ FetchUnchanged

\* lines 690-691 and 700-701: the GET is answered with bytes
Download ==
    /\ fpc = "download"
    /\ downloads < MaxDownloads
    /\ downloads' = downloads + 1
    /\ \E b \in Blobs : fbytes' = b
    /\ fpc' = "verify_fresh"
    /\ UNCHANGED <<fpkg, fhist, cvars>>
    /\ FetchUnchanged

\* lines 690-691 and 700-701: send() or bytes() fails, `?` ends the job
DownloadFails ==
    /\ fpc = "download"
    /\ downloads < MaxDownloads
    /\ downloads' = downloads + 1
    /\ fpc' = "failed"
    /\ UNCHANGED <<fpkg, fbytes, fhist, cvars>>
    /\ FetchUnchanged

\* A job that asks the registry again when fresh bytes fail to verify.
RetryDownload == "download"

\* lines 692-693 and 703-704: map_err(..)? ends the job
AfterFreshFailure == "failed"

\* A job that saves the fresh bytes first and verifies them afterwards.
SaveBeforeVerify ==
    /\ fpc = "verify_fresh"
    /\ SaveTarball(FetchName, FetchVersion, fbytes)
    /\ IF verify_tarball_integrity(fpkg, fbytes)
       THEN /\ fpc' = "extract"
            /\ fhist' = [fhist EXCEPT !.saves = @ + 1, !.saved = @ \cup {fbytes}]
       ELSE /\ fpc' = AfterFreshFailure
            /\ fhist' = [fhist EXCEPT !.saves = @ + 1, !.saved = @ \cup {fbytes},
                                      !.fresh_bad = TRUE, !.rejected = @ \cup {fbytes}]
    /\ UNCHANGED <<fpkg, fbytes, downloads>>
    /\ FetchUnchanged

\* lines 692-697 and 703-711: verify the fresh bytes, then save them; a failed
\* save is only reported
VerifyFresh ==
    /\ fpc = "verify_fresh"
    /\ IF verify_tarball_integrity(fpkg, fbytes)
       THEN /\ fpc' = "extract"
            /\ \/ /\ SaveTarball(FetchName, FetchVersion, fbytes)
                  /\ fhist' = [fhist EXCEPT !.saves = @ + 1, !.saved = @ \cup {fbytes}]
               \/ UNCHANGED <<fhist, cvars>>
       ELSE /\ fpc' = AfterFreshFailure
            /\ fhist' = [fhist EXCEPT !.fresh_bad = TRUE, !.rejected = @ \cup {fbytes}]
            /\ UNCHANGED cvars
    /\ UNCHANGED <<fpkg, fbytes, downloads>>
    /\ FetchUnchanged

\* lines 714-741: the bytes in hand are unpacked
ExtractBytes ==
    /\ fpc = "extract"
    /\ fhist' = [fhist EXCEPT !.extracted = fbytes]
    /\ fpc' = "done"
    /\ UNCHANGED <<fpkg, fbytes, downloads, cvars>>
    /\ FetchUnchanged

\* The cache as earlier installs left it: empty, or one blob saved at time 0.
CacheMenu ==
    {<<>>} \cup {FetchPath :> [data |-> b, mtime |-> 0] : b \in Blobs}

InitFetch ==
    /\ IdleResolver
    /\ IdleInstaller
    /\ IdlePipeline
    /\ IdleText
    /\ IdleAudit
    /\ IdleWriter
    /\ cache \in CacheMenu
    /\ now = 0
    /\ ret = NoCall
    /\ fpkg \in [integrity : IntegrityMenu, shasum : ExpectedMenu]
    /\ fpc = "start"
    /\ fbytes = "none"
    /\ downloads = 0
    /\ fhist = NoHistory

NextFetch ==
    \/ FetchFromCache
    \/ VerifyCached
    \/ Download
    \/ DownloadFails
    \/ VerifyFresh
    \/ ExtractBytes
    \/ Tick
    \/ ClockSetBack

SpecFetch == InitFetch /\ [][NextFetch]_vars

----------------------------------------------------------------------------
(* Strings: versions and requirements as package.json and the lockfile hold them *)

Digits == <<"0", "1", "2", "3", "4", "5", "6", "7", "8", "9">>
Digit(n) == Digits[n + 1]
IsDigit(ch) == \E i \in DOMAIN Digits : Digits[i] = ch
DigitValue(ch) == (CHOOSE i \in DOMAIN Digits : Digits[i] = ch) - 1

\* Version::to_string
VersionToString(v) == <<Digit(v[1]), ".", Digit(v[2]), ".", Digit(v[3])>>

\* Version::parse
ParseVersion(str) ==
    IF /\ Len(str) = 5
       /\ str[2] = "." /\ str[4] = "."
       /\ IsDigit(str[1]) /\ IsDigit(str[3]) /\ IsDigit(str[5])
    THEN [ok |-> TRUE,
          version |-> <<DigitValue(str[1]), DigitValue(str[3]), DigitValue(str[5])>>]
    ELSE [ok |-> FALSE, version |-> <<0, 0, 0>>]

\* str::trim
RECURSIVE TrimStart(_)
TrimStart(str) ==
    IF str # <<>> /\ Head(str) = " " THEN TrimStart(Tail(str)) ELSE str
RECURSIVE TrimEnd(_)
TrimEnd(str) ==
    IF str # <<>> /\ str[Len(str)] = " "
    THEN TrimEnd(SubSeq(str, 1, Len(str) - 1)) ELSE str
Trim(str) == TrimEnd(TrimStart(str))

\* NpmVersionReq::display: the raw text the requirement was parsed from
display(req) ==
    IF req.op = "any" THEN <<"*">> ELSE <<"^">> \o VersionToString(req.v)

\* A reader that takes no requirement text.
ParseNothing(input) == [ok |-> FALSE, req |-> ReqAny]

\* NpmVersionReq::parse for the texts "*" and "^a.b.c"
NpmVersionReqParse(input) ==
    LET raw == IF Trim(input) = <<>> THEN <<"*">> ELSE Trim(input)
    IN  IF raw = <<"*">> THEN [ok |-> TRUE, req |-> ReqAny]
        ELSE IF raw[1] = "^" /\ ParseVersion(Tail(raw)).ok
        THEN [ok |-> TRUE, req |-> Caret(ParseVersion(Tail(raw)).version)]
        ELSE [ok |-> FALSE, req |-> ReqAny]

\* A range written as the bare version.
ExactRange(v) == VersionToString(v)

\* format!("^{}", resolved_version)
CaretRange(v) == <<"^">> \o VersionToString(v)

----------------------------------------------------------------------------
(* The lockfile: generate_lockfile, packages_from_lockfile *)

\* A ResolvedPackage with the fields the commands read.
ResolvedEntry(name, version, depth, d, flags, bins, scripts) ==
    [name |-> name, version |-> version, depth |-> depth, optional |-> flags.optional,
     dependencies |-> d.dependencies, peer_dependencies |-> d.peer_dependencies,
     optional_dependencies |-> d.optional_dependencies,
     tarball_url |-> <<"https://registry/", name, "-", VersionToString(version), ".tgz">>,
     is_workspace |-> flags.is_workspace, constraint_ok |-> flags.constraint_ok,
     bins |-> bins, scripts |-> scripts]

EntryDependencyNames(e) ==
    DOMAIN e.dependencies \cup DOMAIN e.peer_dependencies
        \cup DOMAIN e.optional_dependencies

\* The keys of the lockfile's packages map: "" and "node_modules/<name>".
RootKey == <<>>
LockPath(name) == <<"node_modules/", name>>

\* lockfile_package_name; some = FALSE stands for None
lockfile_package_name(path_key) ==
    IF path_key = <<>> THEN [some |-> FALSE, name |-> ""]
    ELSE [some |-> TRUE, name |-> path_key[Len(path_key)]]

\* path_key.matches("node_modules/").count()
LockDepth(path_key) ==
    Cardinality({i \in DOMAIN path_key : path_key[i] = "node_modules/"})

\* The version and manifest name of the project.
RootVersion == <<"1", ".", "0", ".", "0">>

\* Iterator::collect into a BTreeMap: a later pair replaces an earlier one
RECURSIVE Collect(_)
Collect(pairs) ==
    IF pairs = <<>> THEN <<>>
    ELSE (pairs[Len(pairs)][1] :> pairs[Len(pairs)][2])
             @@ Collect(SubSeq(pairs, 1, Len(pairs) - 1))

\* One HashMap's (name, req.display()) pairs in an order of iteration
IterOrders(map) ==
    { [i \in 1..Len(o) |-> <<o[i], display(map[o[i]])>>] : o \in Perms(DOMAIN map) }

\* lines 936-955: dependencies, then peer, then optional, chained and collected
LockDependencies(e) ==
    { Collect(o1 \o o2 \o o3) :
        o1 \in IterOrders(e.dependencies),
        o2 \in IterOrders(e.peer_dependencies),
        o3 \in IterOrders(e.optional_dependencies) }

\* lines 957-967: the LockfilePackage of one resolved package
LockfilePackage(e) ==
    { [version |-> VersionToString(e.version), resolved |-> e.tarball_url,
       dependencies |-> d] : d \in LockDependencies(e) }

\* lines 908-933: the entry of the project itself
RootLockfilePackage(root_dependencies) ==
    [version |-> RootVersion, resolved |-> <<>>, dependencies |-> root_dependencies]

\* generate_lockfile: the contents it can write for `list` (a loop of inserts
\* over packages of distinct names)
generate_lockfile(list, root_dependencies, workspace_paths) ==
    LET keys == {LockPath(list[i].name) : i \in DOMAIN list}
        entries == UNION {LockfilePackage(list[i]) : i \in DOMAIN list}
    IN  { [dependencies |-> root_dependencies,
           workspace_paths |-> workspace_paths,
           packages |-> (RootKey :> RootLockfilePackage(root_dependencies)) @@ body]
          : body \in { f \in [keys -> entries] :
                         \A i \in DOMAIN list :
                             f[LockPath(list[i].name)] \in LockfilePackage(list[i]) } }

\* BTreeMap iteration: keys in ascending order
NameRank(n) == CASE n = "A" -> 1 [] n = "B" -> 2 [] n = "C" -> 3 [] n = "D" -> 4 [] OTHER -> 5
KeyRank(key) == IF key = <<>> THEN 0 ELSE (IF Len(key) > 1 THEN 10 ELSE 0) + NameRank(key[Len(key)])
RECURSIVE SortedKeys(_)
SortedKeys(K) ==
    IF K = {} THEN <<>>
    ELSE LET k == CHOOSE x \in K : \A y \in K : KeyRank(x) <= KeyRank(y)
         IN  <<k>> \o SortedKeys(K \ {k})

\* lines 996-1000: the requirement texts that parse
ParsedDependencies(locked) ==
    [dep \in {x \in DOMAIN locked.dependencies :
                 NpmVersionReqParse(locked.dependencies[x]).ok}
        |-> NpmVersionReqParse(locked.dependencies[dep]).req]

\* lines 990-1030: the ResolvedPackage built from one packages entry
FromLockEntry(lock, path_key) ==
    LET locked == lock.packages[path_key]
        name == lockfile_package_name(path_key).name
    IN  [name |-> name, version |-> ParseVersion(locked.version).version,
         depth |-> LockDepth(path_key), optional |-> FALSE,
         dependencies |-> ParsedDependencies(locked),
         peer_dependencies |-> <<>>, optional_dependencies |-> <<>>,
         tarball_url |-> locked.resolved,
         is_workspace |-> name \in DOMAIN lock.workspace_paths,
         constraint_ok |-> TRUE, bins |-> {}, scripts |-> {}]

\* packages_from_lockfile; ok = FALSE stands for the Err of Version::parse
packages_from_lockfile(lock) ==
    LET keys == SortedKeys({k \in DOMAIN lock.packages : lockfile_package_name(k).some})
    IN  [ok |-> \A i \in DOMAIN keys : ParseVersion(lock.packages[keys[i]].version).ok,
         packages |-> [i \in DOMAIN keys |-> FromLockEntry(lock, keys[i])]]

----------------------------------------------------------------------------
(* The commands: the project on disk and what the resolver returns *)

\* The commands one behaviour runs.
MaxCommands == 2

RootManifest == "package.json"
WorkspaceName == "W"
WorkspaceManifest == "W/package.json"

\* A package.json: its four dependency maps, name -> requirement text.
Manifest(d, dev) ==
    [dependencies |-> d, devDependencies |-> dev,
     peerDependencies |-> <<>>, optionalDependencies |-> <<>>]
DependencyFields ==
    {"dependencies", "devDependencies", "peerDependencies", "optionalDependencies"}

\* load_workspace_packages: name -> directory of the workspaces on disk
load_workspace_packages ==
    IF WorkspaceManifest \in DOMAIN manifests THEN (WorkspaceName :> "W") ELSE <<>>

\* workspace_manifest_path; "" stands for no -w option
workspace_manifest_path(workspace_name, found) ==
    IF workspace_name = "" THEN [ok |-> TRUE, path |-> RootManifest]
    ELSE IF workspace_name \in DOMAIN found THEN [ok |-> TRUE, path |-> WorkspaceManifest]
    ELSE [ok |-> FALSE, path |-> RootManifest]

ManifestPath == workspace_manifest_path(options.workspace, load_workspace_packages)

\* read_manifest_dependencies_from
read_manifest_dependencies_from(path) == manifests[path].dependencies

\* Lists resolve_dependencies returns for the root A: a lone package; B and C
\* of one band that ask for different majors of D, of which 1.0.0 was
\* committed; an optional dependency B that passes or fails its platform
\* constraints, beside a C with a bin and a script; and a B that asks for the
\* root again, which leaves A at depth 2.
Lone == <<ResolvedEntry("A", V100, 0, NoDeps, Plain, {}, {})>>
Diamond ==
    <<ResolvedEntry("A", V100, 0,
          Deps(Two("B", Caret(V100), "C", Caret(V100)), EmptyMap, EmptyMap), Plain, {}, {}),
      ResolvedEntry("B", V100, 1, Deps(One("D", Caret(V100)), EmptyMap, EmptyMap), Plain, {}, {}),
      ResolvedEntry("C", V100, 1, Deps(One("D", Caret(V200)), EmptyMap, EmptyMap), Plain, {}, {}),
      ResolvedEntry("D", V100, 2, NoDeps, Plain, {}, {})>>
WithOptional(ok) ==
    <<ResolvedEntry("A", V100, 0,
          Deps(One("C", ReqAny), EmptyMap, One("B", Caret(V200))), Plain, {}, {}),
      ResolvedEntry("B", V200, 1, NoDeps, Flags(TRUE, ok, FALSE), {}, {}),
      ResolvedEntry("C", V100, 1, NoDeps, Plain, {"x"}, {"postinstall"})>>
RootBelow ==
    <<ResolvedEntry("B", V100, 1, Deps(One("A", Caret(V100)), EmptyMap, EmptyMap), Plain, {}, {}),
      ResolvedEntry("A", V100, 2, NoDeps, Plain, {}, {})>>
HoistMenu == {"none", "safe", "aggressive"}

\* What is on disk under node_modules, and the two files the commands write.
Tree ==
    [packages |-> node_modules, bin_links |-> bin_links,
     nested_dirs |-> nested_dirs, links |-> links]
Files == [manifests |-> manifests, lockfile |-> lockfile]

\* What a successful install left behind.
Installed(m, lock) == [tree |-> Tree, manifests |-> m, lockfile |-> lock]

\* node_modules/<n> exists: extracted, or made by create_dir_all at line 1356
DirExists(n) == n \in node_modules \/ n \in nested_dirs

----------------------------------------------------------------------------
(* The commands: build_nested_node_modules *)

\* symlink(src, dst) at line 1335: the link and the target text it stores
NestedLink(p, dep) ==
    [at |-> <<"node_modules", p, "node_modules", dep>>, target |-> <<"node_modules", dep>>]

\* lines 1353-1391 from the i-th package on; a link that is there already makes
\* symlink_dir fail, which is only warned about
RECURSIVE NestedFrom(_, _, _, _, _)
NestedFrom(list, i, strategy, hoisted, st) ==
    IF i > Len(list) THEN st
    ELSE LET p == list[i]
             dirs == st.nested_dirs \cup {p.name}
             dependency_names ==
                 IF strategy = "aggressive" THEN {list[j].name : j \in DOMAIN list}
                 ELSE EntryDependencyNames(p)
             present == {dep \in dependency_names : dep \in hoisted \/ dep \in dirs}
         IN  NestedFrom(list, i + 1, strategy, hoisted,
                 [nested_dirs |-> dirs,
                  links |-> st.links \cup {NestedLink(p.name, dep) : dep \in present}])

build_nested_node_modules(list, strategy) ==
    IF strategy = "none" THEN [nested_dirs |-> nested_dirs, links |-> links]
    ELSE NestedFrom(list, 1, strategy, node_modules,
                    [nested_dirs |-> nested_dirs, links |-> links])

----------------------------------------------------------------------------
(* The commands: handle_install_command_async *)

CanRun == pl_pc = "idle" /\ Len(phist.ran) < MaxCommands

\* The record of a command that starts now.
Begun(c) ==
    [phist EXCEPT !.ran = Append(@, c), !.lock_writes = 0, !.manifest_writes = 0,
                  !.start = Files, !.skipped = {}, !.last = "running", !.error = ""]

\* The command returns Err(message).
Failed(h, message) == [h EXCEPT !.last = "error", !.error = message]

\* The command returns and the process ends: the installer's tasks and
\* counters are gone, what is on disk stays.
ProcessExit ==
    /\ ipkgs' = <<>>
    /\ im_pc' = "idle"
    /\ band' = 0
    /\ idx' = 1
    /\ job' = <<>>
    /\ permits' = 0
    /\ written' = <<>>
    /\ total_installed' = 0
    /\ ran' = <<>>
    /\ UNCHANGED <<node_modules, bin_links, ignore_scripts, bulk>>

\* The packages whose job returned Ok(false).
Skipped == {n \in PkgNames : job[n] = "ok_false"}

\* install_packages_parallel is called with `list` (lines 577-601)
CallInstaller(list) ==
    /\ ipkgs' = list
    /\ im_pc' = "spawn"
    /\ band' = MaxOf({list[i].depth : i \in DOMAIN list})
    /\ idx' = 1
    /\ job' = [n \in {list[i].name : i \in DOMAIN list} |-> "none"]
    /\ permits' = MAX_CONCURRENT_DOWNLOADS
    /\ written' = [n \in {list[i].name : i \in DOMAIN list} |-> {}]
    /\ total_installed' = 0
    /\ ran' = [n \in {list[i].name : i \in DOMAIN list} |-> <<>>]
    /\ UNCHANGED <<node_modules, bin_links, ignore_scripts, bulk>>

\* line 1472: the requested package at depth 0
RootPackages(package) ==
    {i \in DOMAIN graph : graph[i].name = package /\ graph[i].depth = 0}
FoundRoot == graph[CHOOSE i \in RootPackages(requested) : TRUE]

\* line 1436: the workspace named by -w is not one of the project
InstallWorkspaceNotFound ==
    /\ CanRun
    /\ ~ManifestPath.ok
    /\ cmd' = "install"
    /\ requested' = "A"
    /\ phist' = Failed(Begun("install"), "Workspace not found")
    /\ UNCHANGED <<pl_pc, options, graph, manifests, lockfile, nested_dirs, links>>
    /\ UNCHANGED <<rvars, ivars, cvars, fvars, tvars, avars, wvars>>

\* lines 1457-1459: resolve_dependencies returns an error
InstallResolveFails ==
    /\ CanRun
    /\ ManifestPath.ok
    /\ cmd' = "install"
    /\ requested' = "A"
    /\ phist' = Failed(Begun("install"), "resolve_dependencies")
    /\ UNCHANGED <<pl_pc, options, graph, manifests, lockfile, nested_dirs, links>>
    /\ UNCHANGED <<rvars, ivars, cvars, fvars, tvars, avars, wvars>>

\* lines 1472-1475: no package of that name at depth 0 in the list
InstallRootNotFound ==
    /\ CanRun
    /\ ManifestPath.ok
    /\ RootPackages("A") = {}
    /\ cmd' = "install"
    /\ requested' = "A"
    /\ phist' = Failed(Begun("install"), "Root package not found in resolved packages")
    /\ UNCHANGED <<pl_pc, options, graph, manifests, lockfile, nested_dirs, links>>
    /\ UNCHANGED <<rvars, ivars, cvars, fvars, tvars, avars, wvars>>

\* lines 1435-1484: the list is resolved and handed to the installer
InstallPackages ==
    /\ CanRun
    /\ ManifestPath.ok
    /\ RootPackages("A") # {}
    /\ cmd' = "install"
    /\ requested' = "A"
    /\ pl_pc' = "installing"
    /\ phist' = Begun("install")
    /\ CallInstaller(graph)
    /\ UNCHANGED <<options, graph, manifests, lockfile, nested_dirs, links>>
    /\ UNCHANGED <<rvars, cvars, fvars, tvars, avars, wvars>>

\* A caller that drops the installer's error and goes on to line 1487.
InstallerErrorDropped ==
    /\ pl_pc = "installing"
    /\ im_pc = "error"
    /\ pl_pc' = "manifest"
    /\ UNCHANGED <<cmd, options, requested, graph, manifests, lockfile, nested_dirs, links,
                   phist>>
    /\ UNCHANGED <<rvars, ivars, cvars, fvars, tvars, avars, wvars>>

\* lines 1482-1484 and 1420-1422: `?` on the installer's error
InstallerFailed ==
    /\ pl_pc = "installing"
    /\ im_pc = "error"
    /\ pl_pc' = "idle"
    /\ phist' = Failed(phist, "install_packages_parallel")
    /\ UNCHANGED <<cmd, options, requested, graph, manifests, lockfile, nested_dirs, links>>
    /\ ProcessExit
    /\ UNCHANGED <<rvars, cvars, fvars, tvars, avars, wvars>>

\* line 1487
InstallBuildNested ==
    /\ cmd = "install"
    /\ pl_pc = "installing"
    /\ im_pc = "done"
    /\ nested_dirs' = build_nested_node_modules(ipkgs, options.hoist_strategy).nested_dirs
    /\ links' = build_nested_node_modules(ipkgs, options.hoist_strategy).links
    /\ pl_pc' = "manifest"
    /\ UNCHANGED <<cmd, options, requested, graph, manifests, lockfile, phist>>
    /\ UNCHANGED <<rvars, ivars, cvars, fvars, tvars, avars, wvars>>

\* update_package_json, called at line 1490 with the selected manifest
update_package_json(path, package, resolved_version) ==
    [manifests EXCEPT ![path].dependencies = (package :> CaretRange(resolved_version)) @@ @]

UpdatePackageJson ==
    /\ pl_pc = "manifest"
    /\ manifests' = update_package_json(ManifestPath.path, requested, FoundRoot.version)
    /\ phist' = [phist EXCEPT !.manifest_writes = @ + 1]
    /\ pl_pc' = "lock"
    /\ UNCHANGED <<cmd, options, requested, graph, lockfile, nested_dirs, links>>
    /\ UNCHANGED <<rvars, ivars, cvars, fvars, tvars, avars, wvars>>

\* lines 1496-1501: the lockfile is written and the command ends
GenerateLockfile ==
    /\ pl_pc = "lock"
    /\ ~options.no_package_lock
    /\ \E lock \in generate_lockfile(ipkgs, read_manifest_dependencies_from(RootManifest),
                                     load_workspace_packages) :
          /\ lockfile' = lock
          /\ phist' = [phist EXCEPT !.lock_writes = @ + 1, !.last = "ok",
                                    !.skipped = Skipped,
                                    !.installed = Installed(manifests, lock)]
    /\ pl_pc' = "idle"
    /\ UNCHANGED <<cmd, options, requested, graph, manifests, nested_dirs, links>>
    /\ ProcessExit
    /\ UNCHANGED <<rvars, cvars, fvars, tvars, avars, wvars>>

\* lines 1493-1495 and 1500-1501: --no-package-lock
SkipLockfile ==
    /\ pl_pc = "lock"
    /\ options.no_package_lock
    /\ pl_pc' = "idle"
    /\ phist' = [phist EXCEPT !.installed = Installed(manifests, lockfile),
                              !.skipped = Skipped, !.last = "ok"]
    /\ UNCHANGED <<cmd, options, requested, graph, manifests, lockfile, nested_dirs, links>>
    /\ ProcessExit
    /\ UNCHANGED <<rvars, cvars, fvars, tvars, avars, wvars>>

----------------------------------------------------------------------------
(* The commands: handle_ci_command_async *)

\* A lockfile of a project without dependencies, as another tool writes it.
BareLock ==
    [dependencies |-> <<>>, workspace_paths |-> <<>>,
     packages |-> (RootKey :> RootLockfilePackage(<<>>))]

\* ensure_lockfile_in_sync; TRUE stands for Ok
ensure_lockfile_in_sync(lock, manifest_path) ==
    IF manifest_path # RootManifest THEN TRUE
    ELSE read_manifest_dependencies_from(manifest_path) = lock.dependencies

\* A ci that writes a lockfile of its own when there is none.
CiCreatesLockfile ==
    /\ CanRun
    /\ lockfile = <<>>
    /\ cmd' = "ci"
    /\ lockfile' = BareLock
    /\ phist' = [Begun("ci") EXCEPT !.lock_writes = 1, !.last = "ok"]
    /\ UNCHANGED <<pl_pc, options, requested, graph, manifests, nested_dirs, links>>
    /\ UNCHANGED <<rvars, ivars, cvars, fvars, tvars, avars, wvars>>

\* lines 1399-1401
CiLockfileMissing ==
    /\ CanRun
    /\ lockfile = <<>>
    /\ cmd' = "ci"
    /\ phist' = Failed(Begun("ci"), "package-lock.json not found")
    /\ UNCHANGED <<pl_pc, options, requested, graph, manifests, lockfile, nested_dirs, links>>
    /\ UNCHANGED <<rvars, ivars, cvars, fvars, tvars, avars, wvars>>

\* line 1404
CiWorkspaceNotFound ==
    /\ CanRun
    /\ lockfile # <<>>
    /\ ~ManifestPath.ok
    /\ cmd' = "ci"
    /\ phist' = Failed(Begun("ci"), "Workspace not found")
    /\ UNCHANGED <<pl_pc, options, requested, graph, manifests, lockfile, nested_dirs, links>>
    /\ UNCHANGED <<rvars, ivars, cvars, fvars, tvars, avars, wvars>>

\* line 1411: the `?` on ensure_lockfile_in_sync
CiOutOfSync ==
    /\ CanRun
    /\ lockfile # <<>>
    /\ ManifestPath.ok
    /\ ~ensure_lockfile_in_sync(lockfile, ManifestPath.path)
    /\ cmd' = "ci"
    /\ phist' = Failed(Begun("ci"), "out of sync")
    /\ UNCHANGED <<pl_pc, options, requested, graph, manifests, lockfile, nested_dirs, links>>
    /\ UNCHANGED <<rvars, ivars, cvars, fvars, tvars, avars, wvars>>

\* lines 1413-1417: the lockfile names no package
CiNothing ==
    /\ CanRun
    /\ lockfile # <<>>
    /\ ManifestPath.ok
    /\ ensure_lockfile_in_sync(lockfile, ManifestPath.path)
    /\ packages_from_lockfile(lockfile).ok
    /\ packages_from_lockfile(lockfile).packages = <<>>
    /\ cmd' = "ci"
    /\ phist' = [Begun("ci") EXCEPT !.last = "ok"]
    /\ UNCHANGED <<pl_pc, options, requested, graph, manifests, lockfile, nested_dirs, links>>
    /\ UNCHANGED <<rvars, ivars, cvars, fvars, tvars, avars, wvars>>

\* lines 1399-1422: the packages of the lockfile are handed to the installer
CiPackages ==
    /\ CanRun
    /\ lockfile # <<>>
    /\ ManifestPath.ok
    /\ ensure_lockfile_in_sync(lockfile, ManifestPath.path)
    /\ packages_from_lockfile(lockfile).ok
    /\ packages_from_lockfile(lockfile).packages # <<>>
    /\ cmd' = "ci"
    /\ pl_pc' = "installing"
    /\ phist' = Begun("ci")
    /\ CallInstaller(packages_from_lockfile(lockfile).packages)
    /\ UNCHANGED <<options, requested, graph, manifests, lockfile, nested_dirs, links>>
    /\ UNCHANGED <<rvars, cvars, fvars, tvars, avars, wvars>>

\* lines 1423-1426
CiBuildNested ==
    /\ cmd = "ci"
    /\ pl_pc = "installing"
    /\ im_pc = "done"
    /\ nested_dirs' = build_nested_node_modules(ipkgs, options.hoist_strategy).nested_dirs
    /\ links' = build_nested_node_modules(ipkgs, options.hoist_strategy).links
    /\ pl_pc' = "idle"
    /\ phist' = [phist EXCEPT !.skipped = Skipped, !.last = "ok"]
    /\ UNCHANGED <<cmd, options, requested, graph, manifests, lockfile>>
    /\ ProcessExit
    /\ UNCHANGED <<rvars, cvars, fvars, tvars, avars, wvars>>

----------------------------------------------------------------------------
(* The commands: handle_uninstall_command, and the user between commands *)

UninstallMenu == {"A", "B"}

\* lines 20-36: the package leaves the four dependency maps of package.json
RemovedFromManifest(m, package) ==
    [field \in DependencyFields |-> Without(m[field], package)]

\* lines 60-70: packages_obj.remove(package), the key being the bare name
RemovedFromLock(lock, package) ==
    [lock EXCEPT !.packages = Without(@, <<package>>)]

handle_uninstall_command(package) ==
    /\ CanRun
    /\ cmd' = "uninstall"
    /\ requested' = package
    /\ manifests' = [manifests EXCEPT ![RootManifest] = RemovedFromManifest(@, package)]
    /\ node_modules' = node_modules \ {package}
    /\ nested_dirs' = nested_dirs \ {package}
    /\ links' = {l \in links : l.at[2] # package}
    /\ lockfile' = IF lockfile = <<>> THEN lockfile ELSE RemovedFromLock(lockfile, package)
    /\ phist' = [Begun("uninstall") EXCEPT !.manifest_writes = 1,
                     !.lock_writes = IF lockfile = <<>> THEN 0 ELSE 1, !.last = "ok"]
    /\ UNCHANGED <<pl_pc, options, graph>>
    /\ UNCHANGED <<ipkgs, im_pc, band, idx, job, permits, bin_links, written,
                   total_installed, ignore_scripts, ran, bulk>>
    /\ UNCHANGED <<rvars, cvars, fvars, tvars, avars, wvars>>

\* The user adds a dependency to package.json by hand.
EditManifest ==
    /\ pl_pc = "idle"
    /\ phist.ran # <<>>
    /\ "D" \notin DOMAIN manifests[RootManifest].dependencies
    /\ manifests' = [manifests EXCEPT ![RootManifest].dependencies = ("D" :> <<"*">>) @@ @]
    /\ UNCHANGED <<cmd, pl_pc, options, requested, graph, lockfile, nested_dirs, links, phist>>
    /\ UNCHANGED <<rvars, ivars, cvars, fvars, tvars, avars, wvars>>

\* The user deletes node_modules.
RemoveNodeModules ==
    /\ pl_pc = "idle"
    /\ node_modules # {} \/ nested_dirs # {}
    /\ node_modules' = {}
    /\ bin_links' = <<>>
    /\ nested_dirs' = {}
    /\ links' = {}
    /\ UNCHANGED <<cmd, pl_pc, options, requested, graph, manifests, lockfile, phist>>
    /\ UNCHANGED <<ipkgs, im_pc, band, idx, job, permits, written,
                   total_installed, ignore_scripts, ran, bulk>>
    /\ UNCHANGED <<rvars, cvars, fvars, tvars, avars, wvars>>

----------------------------------------------------------------------------
(* The commands: specification *)

\* The options of the commands of one behaviour: each hoist strategy, and
\* --no-package-lock and -w W with the default strategy.
Options(no_package_lock, workspace, hoist_strategy) ==
    [no_package_lock |-> no_package_lock, workspace |-> workspace,
     hoist_strategy |-> hoist_strategy]
OptionsMenu ==
    {Options(FALSE, "", h) : h \in HoistMenu}
        \cup {Options(TRUE, "", "safe"), Options(FALSE, WorkspaceName, "safe")}

\* The projects: package.json alone, with dependencies and a workspace W, and
\* with the lockfile of another tool.
Project(m, lock) == [manifests |-> m, lockfile |-> lock]
Alone == Project((RootManifest :> Manifest(<<>>, <<>>)), <<>>)
WithWorkspace ==
    Project((RootManifest :> Manifest(("A" :> <<"*">>) @@ ("B" :> CaretRange(V200)),
                                      ("A" :> <<"*">>)))
                @@ (WorkspaceManifest :> Manifest(<<>>, <<>>)), <<>>)
Locked == Project((RootManifest :> Manifest(<<>>, <<>>)), BareLock)
ProjectMenu == {Alone, WithWorkspace, Locked}

\* What one behaviour starts from: the list the resolver returns, the options
\* of its commands and the project. The lone package meets every option and
\* project, the larger lists the options their packages react to.
Scenario(g, o, project) == [graph |-> g, options |-> o, project |-> project]
ScenarioMenu ==
    {Scenario(Lone, o, project) : o \in OptionsMenu, project \in ProjectMenu}
        \cup {Scenario(WithOptional(FALSE), Options(FALSE, "", h), Alone) : h \in HoistMenu}
        \cup {Scenario(WithOptional(TRUE), Options(FALSE, "", "safe"), WithWorkspace),
              Scenario(Diamond, Options(FALSE, "", "safe"), Alone),
              Scenario(RootBelow, Options(FALSE, "", "safe"), Alone)}

InitPipeline ==
    /\ IdleResolver
    /\ IdleCache
    /\ IdleFetch
    /\ IdleInstaller
    /\ IdleText
    /\ IdleAudit
    /\ IdleWriter
    /\ cmd = "none"
    /\ pl_pc = "idle"
    /\ requested = ""
    /\ \E sc \in ScenarioMenu :
          /\ graph = sc.graph
          /\ options = sc.options
          /\ manifests = sc.project.manifests
          /\ lockfile = sc.project.lockfile
    /\ nested_dirs = {}
    /\ links = {}
    /\ phist = NoCommands

NextPipeline ==
    \/ InstallWorkspaceNotFound
    \/ InstallResolveFails
    \/ InstallRootNotFound
    \/ InstallPackages
    \/ InstallerFailed
    \/ InstallBuildNested
    \/ UpdatePackageJson
    \/ GenerateLockfile
    \/ SkipLockfile
    \/ CiLockfileMissing
    \/ CiWorkspaceNotFound
    \/ CiOutOfSync
    \/ CiNothing
    \/ CiPackages
    \/ CiBuildNested
    \/ \E package \in UninstallMenu : handle_uninstall_command(package)
    \/ EditManifest
    \/ RemoveNodeModules
    \/ Spawn
    \/ Join
    \/ \E n \in PkgNames : Acquire(n)
    \/ \E n \in PkgNames : ValidateOk(n)
    \/ \E n \in PkgNames : ValidateSkip(n)
    \/ \E n \in PkgNames : FetchOk(n)
    \/ \E n \in PkgNames : FetchFail(n)
    \/ \E n \in PkgNames : Extract(n)
    \/ \E n \in PkgNames : BinDone(n)
    \/ \E n \in PkgNames : BinCheck(n)
    \/ \E n \in PkgNames : BinRemove(n)
    \/ \E n \in PkgNames : BinLink(n)
    \/ \E n \in PkgNames : ScriptsDone(n)
    \/ \E n \in PkgNames : ScriptStart(n)
    \/ \E n \in PkgNames : ScriptExitOk(n)
    \/ \E n \in PkgNames : ScriptExitFail(n)

SpecPipeline == InitPipeline /\ [][NextPipeline]_vars

----------------------------------------------------------------------------
(* Claims about the install command *)

\* The last command was an install that returned Ok.
InstallSucceeded == cmd = "install" /\ pl_pc = "idle" /\ phist.last = "ok"

\* C12: when an optional dependency fails its platform or engine validation in
\* the installer, the install that completes has left no node_modules/<name>
\* directory for it, whatever the hoist strategy.
C12_SkippedOptionalAbsent ==
    InstallSucceeded => \A n \in phist.skipped : ~DirExists(n)

\* C12 under the default strategy: the install returned Ok, the optional
\* package was skipped, and its directory is there.
C12_SkippedDirectory ==
    /\ InstallSucceeded
    /\ options.hoist_strategy = "safe"
    /\ \E n \in phist.skipped : n \notin node_modules /\ n \in nested_dirs

\* C13: when an optional dependency fails its platform or engine validation in
\* the installer, the lockfile written at the end of that install has no
\* packages entry for it.
C13_SkippedOptionalNotLocked ==
    (InstallSucceeded /\ phist.lock_writes = 1) =>
        \A n \in phist.skipped : \A key \in DOMAIN lockfile.packages :
            lockfile_package_name(key) # [some |-> TRUE, name |-> n]

\* C13: the lockfile of an install that skipped B has the key node_modules/B.
C13_SkippedLocked ==
    /\ InstallSucceeded
    /\ phist.lock_writes = 1
    /\ "B" \in phist.skipped
    /\ LockPath("B") \in DOMAIN lockfile.packages

\* C14: within one run of the install command the lockfile is written at most
\* once, and only when every job of the installer has returned Ok; while the
\* installer runs the manifests and the lockfile are as the run found them,
\* and once a job has failed the run can only end with an error, leaving both
\* files as it found them.
C14_LockfileOnceAfterJobs ==
    [][cmd' = "install" =>
          /\ phist'.lock_writes <= 1
          /\ phist'.lock_writes > phist.lock_writes =>
                /\ PkgNames # {}
                /\ \A n \in PkgNames : job[n] \in {"ok_true", "ok_false"}
          /\ pl_pc' = "installing" => Files' = phist'.start
          /\ (pl_pc = "installing" /\ \E n \in PkgNames : job[n] = "err") =>
                /\ Files' = phist.start
                /\ \/ pl_pc' = "installing"
                   \/ pl_pc' = "idle" /\ phist'.last = "error"]_vars

\* C14: a job failed after another had extracted its package; the install
\* returned the installer's error and both files are as the run found them.
C14_Witness ==
    /\ cmd = "install"
    /\ pl_pc = "idle"
    /\ phist.error = "install_packages_parallel"
    /\ node_modules # {}
    /\ phist.lock_writes = 0
    /\ phist.manifest_writes = 0
    /\ Files = phist.start

\* The versions of the package extracted at `path`: node_modules/<n> holds the
\* version of n that the installed list names.
PackageAt(path) ==
    IF Len(path) = 2 /\ path[1] = "node_modules" /\ path[2] \in node_modules
    THEN {graph[i].version : i \in {j \in DOMAIN graph : graph[j].name = path[2]}}
    ELSE {}

\* Where a link leads: its target text, read from the directory the link is in.
LinkDestination(l) == SubSeq(l.at, 1, Len(l.at) - 1) \o l.target

\* The versions found at `path`, directly or through a link that is there.
VersionsAt(path) ==
    PackageAt(path) \cup UNION {PackageAt(LinkDestination(l)) : l \in {k \in links : k.at = path}}

\* The requirement of the edge from e to q.
Requirement(e, q) ==
    IF q \in DOMAIN e.dependencies THEN e.dependencies[q]
    ELSE IF q \in DOMAIN e.peer_dependencies THEN e.peer_dependencies[q]
    ELSE e.optional_dependencies[q]

\* C15: after a successful install with the safe hoist strategy, for every
\* edge P -> Q with requirement r of the resolved graph (the optional packages
\* the installer skipped aside), node_modules/Q or node_modules/P/node_modules/Q
\* holds a version of Q that satisfies r.
C15_EveryEdgeSatisfied ==
    (InstallSucceeded /\ options.hoist_strategy = "safe" /\ Tree = phist.installed.tree) =>
        \A i \in DOMAIN graph : \A q \in EntryDependencyNames(graph[i]) \ phist.skipped :
            \E v \in VersionsAt(<<"node_modules", q>>)
                        \cup VersionsAt(<<"node_modules", graph[i].name, "node_modules", q>>) :
                Matches(Requirement(graph[i], q), v)

\* C15: B and C were installed beside D 1.0.0, C asks for D ^2.0.0, and the
\* link node_modules/C/node_modules/D is there.
C15_UnsatisfiedEdge ==
    /\ InstallSucceeded
    /\ options.hoist_strategy = "safe"
    /\ graph = Diamond
    /\ {"A", "B", "C", "D"} \subseteq node_modules
    /\ NestedLink("C", "D") \in links
    /\ VersionsAt(<<"node_modules", "D">>) = {V100}

----------------------------------------------------------------------------
(* Claims about ci and uninstall *)

\* A ci that returned Ok, run after a successful install that wrote the
\* lockfile, with the lockfile and the manifests as that install left them.
CiAfterInstall ==
    /\ phist.ran = <<"install", "ci">>
    /\ pl_pc = "idle"
    /\ phist.last = "ok"
    /\ phist.installed # <<>>
    /\ ~options.no_package_lock
    /\ lockfile = phist.installed.lockfile
    /\ manifests = phist.installed.manifests

\* C17: a ci run over the lockfile of a prior successful install of the same
\* manifest leaves the node_modules tree that install left: the same package
\* directories, the same node_modules/.bin shims, the same nested links with
\* the same targets.
C17_CiReproducesTree == CiAfterInstall => Tree = phist.installed.tree

\* C17: node_modules was deleted after an install that linked the shim x; the
\* ci run returned Ok and node_modules/.bin has no shim.
C17_ShimMissing ==
    /\ CiAfterInstall
    /\ "x" \in DOMAIN phist.installed.tree.bin_links
    /\ bin_links = <<>>
    /\ node_modules = phist.installed.tree.packages

\* The ci run found a lockfile, and the dependencies of the manifest selected
\* for it were not the root dependencies of that lockfile.
CiDrifted ==
    /\ cmd = "ci"
    /\ phist.start.lockfile # <<>>
    /\ ManifestPath.ok
    /\ phist.start.manifests[ManifestPath.path].dependencies
           # phist.start.lockfile.dependencies

\* C18: whenever the dependencies of the manifest selected for a ci run (the
\* root manifest, or the workspace manifest chosen with -w) differ from the
\* root dependencies of the lockfile, the run fails with the out-of-sync error
\* before any installer job starts and leaves the lockfile as it was.
C18_DriftDetected ==
    CiDrifted =>
        /\ pl_pc = "idle"
        /\ phist.error = "out of sync"
        /\ lockfile = phist.start.lockfile

\* C18: a ci run with -w W, whose manifest W/package.json differs from the
\* lockfile's root dependencies, has a package extracted by a job.
C18_WorkspaceDrift ==
    /\ CiDrifted
    /\ options.workspace = WorkspaceName
    /\ pl_pc = "installing"
    /\ \E n \in PkgNames : job[n] = "bin"

\* C19: after uninstall of X, X is in none of the four dependency maps of
\* package.json, node_modules/X does not exist, and the packages map of the
\* lockfile has no key node_modules/X.
C19_Uninstalled ==
    (cmd = "uninstall" /\ pl_pc = "idle") =>
        /\ \A field \in DependencyFields : requested \notin DOMAIN manifests[RootManifest][field]
        /\ ~DirExists(requested)
        /\ lockfile # <<>> => LockPath(requested) \notin DOMAIN lockfile.packages

\* C19: A was installed and then uninstalled; package.json and node_modules
\* have lost it, the lockfile still has the key node_modules/A.
C19_StillLocked ==
    /\ phist.ran = <<"install", "uninstall">>
    /\ requested = "A"
    /\ phist.start.manifests[RootManifest].dependencies # <<>>
    /\ \A field \in DependencyFields : "A" \notin DOMAIN manifests[RootManifest][field]
    /\ ~DirExists("A")
    /\ lockfile # <<>>
    /\ LockPath("A") \in DOMAIN lockfile.packages

----------------------------------------------------------------------------
(* The lockfile written, read back and written again *)

V123 == <<1, 2, 3>>
LockVersionMenu == {V100, V200, V123}

\* The dependency maps of the lists written: none, one map, all three maps,
\* and B in two maps with different requirements.
LockDepsMenu ==
    { NoDeps,
      Deps(One("B", Caret(V123)), EmptyMap, EmptyMap),
      Deps(One("B", ReqAny), One("C", Caret(V200)), One("D", Caret(V100))),
      Deps(Two("B", Caret(V100), "C", ReqAny), One("B", Caret(V200)), One("C", Caret(V123))) }

\* Lists of packages of distinct names, as resolve_dependencies returns them.
LockInputs ==
    { <<ResolvedEntry("A", va, 0, da, Plain, {}, {}),
        ResolvedEntry("B", vb, 1, db, Flags(o, TRUE, FALSE), bins, {})>>
      : va \in LockVersionMenu, vb \in LockVersionMenu, da \in LockDepsMenu,
        db \in {NoDeps, Deps(EmptyMap, EmptyMap, One("C", ReqAny))},
        o \in BOOLEAN, bins \in BinMenu }

\* In this specification phist is the sequence of the contents written to
\* package-lock.json, and graph the list that is written next.
WriteLock ==
    /\ pl_pc \in {"idle", "written", "read"}
    /\ Len(phist) < 2 \/ pl_pc = "read"
    /\ \E lock \in generate_lockfile(graph, read_manifest_dependencies_from(RootManifest),
                                     load_workspace_packages) :
          /\ lockfile' = lock
          /\ phist' = Append(phist, lock)
    /\ pl_pc' = IF pl_pc = "read" THEN "rewritten" ELSE "written"
    /\ UNCHANGED <<cmd, options, requested, graph, manifests, nested_dirs, links>>
    /\ UNCHANGED <<rvars, ivars, cvars, fvars, tvars, avars, wvars>>

\* lines 1408-1413: the lockfile is read and turned into packages
ReadLock ==
    /\ pl_pc = "written"
    /\ packages_from_lockfile(lockfile).ok
    /\ graph' = packages_from_lockfile(lockfile).packages
    /\ pl_pc' = "read"
    /\ UNCHANGED <<cmd, options, requested, manifests, lockfile, nested_dirs, links, phist>>
    /\ UNCHANGED <<rvars, ivars, cvars, fvars, tvars, avars, wvars>>

InitLock ==
    /\ IdleResolver
    /\ IdleCache
    /\ IdleFetch
    /\ IdleInstaller
    /\ IdleText
    /\ IdleAudit
    /\ IdleWriter
    /\ cmd = "none"
    /\ pl_pc = "idle"
    /\ options = NoOptions
    /\ requested = ""
    /\ graph \in LockInputs
    /\ manifests \in {Alone.manifests, WithWorkspace.manifests}
    /\ lockfile = <<>>
    /\ nested_dirs = {}
    /\ links = {}
    /\ phist = <<>>

NextLock ==
    \/ WriteLock
    \/ ReadLock

SpecLock == InitLock /\ [][NextLock]_vars

\* C16: with the manifest fixed, every writing of the lockfile has the same
\* content: writing a list g twice, and writing the packages read back from
\* the lockfile written for g.
C16_RoundTrip ==
    \A i \in DOMAIN phist : phist[i] = phist[1]

\* C16: a list whose root names B in two maps was written, read back and
\* written again; the entry of A holds the merged requirements.
C16_Witness ==
    /\ pl_pc = "rewritten"
    /\ Len(phist) >= 2
    /\ lockfile = phist[1]
    /\ DOMAIN lockfile.packages[LockPath("A")].dependencies = {"B", "C"}
    /\ lockfile.packages[LockPath("A")].dependencies["B"] = <<"^", "2", ".", "0", ".", "0">>
    /\ lockfile.packages[LockPath("A")].version = <<"1", ".", "2", ".", "3">>
    /\ graph[1].peer_dependencies = <<>>

----------------------------------------------------------------------------
(* Requirement texts: NpmVersionReq::parse, matches and display over the   *)
(* clause syntax; a text is a sequence of characters                       *)

\* str::find: the first position at which pat occurs, 0 when it does not
Find(str, pat) ==
    LET at == {i \in 1..(Len(str) - Len(pat) + 1) :
                  SubSeq(str, i, i + Len(pat) - 1) = pat}
    IN  IF at = {} THEN 0 ELSE CHOOSE i \in at : \A j \in at : i <= j

\* str::split
RECURSIVE Split(_, _)
Split(str, pat) ==
    LET i == Find(str, pat)
    IN  IF i = 0 THEN <<str>>
        ELSE <<SubSeq(str, 1, i - 1)>> \o Split(SubSeq(str, i + Len(pat), Len(str)), pat)

\* str::split_whitespace
SplitWhitespace(str) == SelectSeq(Split(str, <<" ">>), LAMBDA token : token # <<>>)

\* str::parse::<u64>().unwrap_or(0)
RECURSIVE ParseU64(_)
ParseU64(str) ==
    IF str = <<>> \/ \E i \in DOMAIN str : ~IsDigit(str[i]) THEN 0
    ELSE IF Len(str) = 1 THEN DigitValue(str[1])
    ELSE 10 * ParseU64(SubSeq(str, 1, Len(str) - 1)) + DigitValue(str[Len(str)])

\* u64 as format! writes it
RECURSIVE FormatU64(_)
FormatU64(n) == IF n < 10 THEN <<Digit(n)>> ELSE FormatU64(n \div 10) \o <<Digit(n % 10)>>

\* normalize_wildcard_clause
normalize_wildcard_clause(clause) ==
    LET trimmed == Trim(clause)
        parts == Split(trimmed, <<".">>)
        major == parts[1]
        minor == IF Len(parts) >= 2 THEN parts[2] ELSE <<"x">>
        patch == IF Len(parts) >= 3 THEN parts[3] ELSE <<"x">>
        is_wild(v) == v \in {<<"*">>, <<"x">>, <<"X">>}
        major_num == ParseU64(major)
        minor_num == ParseU64(minor)
    IN  IF is_wild(trimmed) THEN <<"*">>
        ELSE IF is_wild(major) THEN <<"*">>
        ELSE IF is_wild(minor)
        THEN <<">", "=">> \o FormatU64(major_num) \o <<".", "0", ".", "0", ",", " ", "<">>
             \o FormatU64(major_num + 1) \o <<".", "0", ".", "0">>
        ELSE IF is_wild(patch)
        THEN <<">", "=">> \o FormatU64(major_num) \o <<".">> \o FormatU64(minor_num)
             \o <<".", "0", ",", " ", "<">> \o FormatU64(major_num) \o <<".">>
             \o FormatU64(minor_num + 1) \o <<".", "0">>
        ELSE clause

\* lines 144-164: the loop over clause.split_whitespace()
RECURSIVE JoinTokens(_, _, _)
JoinTokens(tokens, result, last_was_operator) ==
    IF tokens = <<>> THEN result
    ELSE LET token == Head(tokens)
             sep == IF result # <<>> THEN <<",", " ">> ELSE <<>>
         IN  IF token[1] \in {"<", ">"}
             THEN JoinTokens(Tail(tokens), result \o sep \o token, TRUE)
             ELSE IF last_was_operator
             THEN JoinTokens(Tail(tokens), result \o token, FALSE)
             ELSE JoinTokens(Tail(tokens), result \o sep \o token, FALSE)

\* normalize_npm_clause
normalize_npm_clause(clause) ==
    LET hyphen == Find(clause, <<" ", "-", " ">>)
        result == JoinTokens(SplitWhitespace(clause), <<>>, FALSE)
    IN  IF clause = <<>> \/ clause = <<"*">> THEN <<"*">>
        ELSE IF hyphen # 0
        THEN <<">", "=">> \o Trim(SubSeq(clause, 1, hyphen - 1)) \o <<",", " ", "<", "=">>
             \o Trim(SubSeq(clause, hyphen + 3, Len(clause)))
        ELSE IF \E i \in DOMAIN clause : clause[i] \in {"x", "X", "*"}
        THEN normalize_wildcard_clause(clause)
        ELSE IF result = <<>> THEN clause ELSE result

\* semver::Comparator::from_str for a comparator that gives all three numbers;
\* without an operator the comparator is a caret one
ComparatorParse(str) ==
    LET t == TrimStart(str)
        two == IF Len(t) >= 2 THEN SubSeq(t, 1, 2) ELSE <<>>
        one == IF Len(t) >= 1 THEN t[1] ELSE ""
        op == IF two = <<">", "=">> THEN "ge"
              ELSE IF two = <<"<", "=">> THEN "le"
              ELSE IF one = ">" THEN "gt"
              ELSE IF one = "<" THEN "lt"
              ELSE IF one = "=" THEN "exact"
              ELSE IF one = "~" THEN "tilde"
              ELSE "caret"
        skip == IF op \in {"ge", "le"} THEN 2
                ELSE IF op = "caret" /\ one # "^" THEN 0 ELSE 1
        version == ParseVersion(Trim(SubSeq(t, skip + 1, Len(t))))
    IN  [ok |-> version.ok, op |-> op, v |-> version.version]

\* semver::Comparator::matches (no pre-release tags in the model)
ComparatorMatches(c, v) ==
    CASE c.op = "exact" -> v = c.v
      [] c.op = "gt" -> VersionLess(c.v, v)
      [] c.op = "ge" -> ~VersionLess(v, c.v)
      [] c.op = "lt" -> VersionLess(v, c.v)
      [] c.op = "le" -> ~VersionLess(c.v, v)
      [] c.op = "tilde" -> v[1] = c.v[1] /\ v[2] = c.v[2] /\ v[3] >= c.v[3]
      [] c.op = "caret" -> CaretMatches(c.v, v)

\* semver::VersionReq::from_str: "*" or comparators separated by commas
VersionReqParse(str) ==
    LET pieces == Split(str, <<",">>)
        each == [i \in DOMAIN pieces |-> ComparatorParse(pieces[i])]
    IN  IF Trim(str) = <<"*">> THEN [ok |-> TRUE, comparators |-> <<>>]
        ELSE [ok |-> \A i \in DOMAIN each : each[i].ok,
              comparators |-> [i \in DOMAIN each |-> [op |-> each[i].op, v |-> each[i].v]]]

\* semver::VersionReq::matches
VersionReqMatches(req, v) ==
    \A i \in DOMAIN req : ComparatorMatches(req[i], v)

\* lines 98-101: one VersionReq for each piece between "||"
ParseClauses(raw) ==
    LET pieces == Split(raw, <<"|", "|">>)
        each == [i \in DOMAIN pieces |->
                    VersionReqParse(normalize_npm_clause(Trim(pieces[i])))]
    IN  [ok |-> \A i \in DOMAIN each : each[i].ok,
         clauses |-> [i \in DOMAIN each |-> each[i].comparators]]

\* A parse that keeps the text as it was handed in.
ParseKeepingInput(input) ==
    LET raw == IF Trim(input) = <<>> THEN <<"*">> ELSE Trim(input)
    IN  [ok |-> ParseClauses(raw).ok,
         req |-> [raw |-> input, clauses |-> ParseClauses(raw).clauses]]

\* NpmVersionReq::parse; ok = FALSE stands for the Err of VersionReq::parse
parse(input) ==
    LET raw == IF Trim(input) = <<>> THEN <<"*">> ELSE Trim(input)
    IN  [ok |-> ParseClauses(raw).ok,
         req |-> [raw |-> raw, clauses |-> ParseClauses(raw).clauses]]

\* NpmVersionReq::matches
matches(req, version) ==
    \E i \in DOMAIN req.clauses : VersionReqMatches(req.clauses[i], version)

\* impl Display for NpmVersionReq, NpmVersionReq::display
Display(req) == req.raw

\* The requirement texts tried.
TextMenu ==
    {<<"1", ".", "2", ".", "3">>,
     <<"=", "1", ".", "2", ".", "3">>,
     <<"^", "1", ".", "2", ".", "3">>,
     <<"~", "1", ".", "2", ".", "3">>,
     <<">", "=", "1", ".", "2", ".", "3">>,
     <<">", "=", " ", "1", ".", "2", ".", "3">>,
     <<">", "=", "1", ".", "0", ".", "0", " ", "<", "2", ".", "0", ".", "0">>,
     <<"1", ".", "2", ".", "3", " ", "-", " ", "2", ".", "0", ".", "0">>,
     <<"1", ".", "x">>,
     <<"1", ".", "2", ".", "x">>,
     <<"*">>,
     <<"x">>,
     <<>>,
     <<" ">>,
     <<" ", "1", ".", "2", ".", "3">>,
     <<"1", ".", "2", ".", "3", " ">>,
     <<" ", " ", "^", "1", ".", "2", ".", "3", " ">>,
     <<"1", ".", "2", ".", "3", " ", "|", "|", " ", "2", ".", "0", ".", "0">>,
     <<"^", "0", ".", "2", ".", "3">>,
     <<"0", ".", "0", ".", "3">>,
     <<"<", "1", ".", "2", ".", "3">>,
     <<"<", "=", "1", ".", "2", ".", "3">>,
     <<">", "1", ".", "2", ".", "3">>,
     <<"l", "a", "t", "e", "s", "t">>,
     <<"1", ".", "2", ".", "3", " ", "|", "|">>}

\* The versions tried against a parsed requirement.
ProbeMenu ==
    {<<0, 0, 3>>, <<0, 2, 3>>, <<0, 2, 4>>, <<1, 0, 0>>, <<1, 2, 2>>, <<1, 2, 3>>, <<1, 2, 4>>, <<1, 9, 0>>, <<2, 0, 0>>, <<2, 0, 1>>}

InitText ==
    /\ IdleResolver
    /\ IdleCache
    /\ IdleFetch
    /\ IdleInstaller
    /\ IdlePipeline
    /\ IdleAudit
    /\ IdleWriter
    /\ text \in TextMenu
    /\ parsed = <<>>
    /\ probe = <<>>

\* let req = NpmVersionReq::parse(text)
ParseText ==
    /\ parsed = <<>>
    /\ parsed' = parse(text)
    /\ UNCHANGED <<text, probe>>
    /\ UNCHANGED <<rvars, ivars, cvars, fvars, pvars, avars, wvars>>

\* req.matches(&version)
MatchVersion(version) ==
    /\ parsed # <<>>
    /\ parsed.ok
    /\ probe' = [version |-> version, matched |-> matches(parsed.req, version)]
    /\ UNCHANGED <<text, parsed>>
    /\ UNCHANGED <<rvars, ivars, cvars, fvars, pvars, avars, wvars>>

NextText ==
    \/ ParseText
    \/ \E version \in ProbeMenu : MatchVersion(version)

SpecText == InitText /\ [][NextText]_vars

\* C21: a requirement written as a bare full version A.B.C matches a version
\* exactly when the version is A.B.C.
C21_ExactMatchesOnlyItself ==
    (probe # <<>> /\ ParseVersion(text).ok)
        => (probe.matched <=> probe.version = ParseVersion(text).version)

\* C21: the requirement "1.2.3" was tried against 1.9.0 and matched it.
C21_BareVersionMatchesHigher ==
    /\ text = VersionToString(<<1, 2, 3>>)
    /\ probe # <<>>
    /\ probe.version = <<1, 9, 0>>
    /\ probe.matched

\* C22 as stated: the display of a parsed requirement is the text it was
\* parsed from, character for character.
C22_DisplayEchoesText ==
    (parsed # <<>> /\ parsed.ok) => Display(parsed.req) = text

\* C22: the display of a parsed requirement is the text without its leading
\* and trailing blanks, and "*" when nothing else is left.
C22_DisplayEchoesTrimmedText ==
    (parsed # <<>> /\ parsed.ok)
        => Display(parsed.req) = IF Trim(text) = <<>> THEN <<"*">> ELSE Trim(text)

\* C22: a text with blanks on both sides was parsed and is displayed differently.
C22_BlanksDropped ==
    /\ parsed # <<>>
    /\ parsed.ok
    /\ text = <<" ", " ">> \o CaretRange(<<1, 2, 3>>) \o <<" ">>
    /\ Display(parsed.req) = CaretRange(<<1, 2, 3>>)

----------------------------------------------------------------------------
(* The audit command (audit.rs) *)

\* load_versions_from_lockfile: the keys of "packages" whose version parses
load_versions_from_lockfile(lock) ==
    LET kept == {key \in DOMAIN lock.packages : ParseVersion(lock.packages[key].version).ok}
    IN  [key \in kept |-> lock.packages[key].version]

\* str::trim_start_matches(['^', '~', '>', '<', '='])
RECURSIVE TrimStartMatches(_)
TrimStartMatches(str) ==
    IF str # <<>> /\ Head(str) \in {"^", "~", ">", "<", "="}
    THEN TrimStartMatches(Tail(str)) ELSE str

\* load_versions_from_manifest: the dependencies whose cleaned text is a
\* version; a key is a text, here the name alone
load_versions_from_manifest(manifest) ==
    LET deps == manifest.dependencies
        kept == {name \in DOMAIN deps : ParseVersion(TrimStartMatches(deps[name])).ok}
    IN  [key \in {<<name>> : name \in kept} |-> TrimStartMatches(deps[key[1]])]

\* load_installed_versions
load_installed_versions ==
    IF lockfile # <<>> THEN load_versions_from_lockfile(lockfile)
    ELSE IF RootManifest \in DOMAIN manifests
    THEN load_versions_from_manifest(manifests[RootManifest])
    ELSE <<>>

\* handle_audit_command_async up to the POST of the payload (lines 10-26)
handle_audit_command_async ==
    /\ cmd = "none"
    /\ pl_pc \in {"idle", "written"}
    /\ cmd' = "audit"
    /\ LET installed == load_installed_versions
       IN  posted' = IF DOMAIN installed = {} THEN posted
                     ELSE Append(posted, [key \in DOMAIN installed |-> <<installed[key]>>])
    /\ UNCHANGED <<pl_pc, options, requested, graph, manifests, lockfile, nested_dirs,
                   links, phist>>
    /\ UNCHANGED <<rvars, ivars, cvars, fvars, tvars, wvars>>

\* The project of InitLock: a list the resolver returned, not yet written.
InitAudit == InitLock

\* An install command that runs before the audit writes the lockfile.
WriteLockBeforeAudit == cmd = "none" /\ WriteLock

NextAudit ==
    \/ WriteLockBeforeAudit
    \/ handle_audit_command_async

SpecAudit == InitAudit /\ [][NextAudit]_vars

\* The key of a payload that names a package.
NameKey(name) == <<name>>

\* C23: every payload sent holds exactly the installed packages: each key is
\* the name of a package of the lockfile, never the root key "" or an install
\* path, and its value is the version of that package.
C23_PayloadOfNames ==
    \A i \in DOMAIN posted :
        lockfile # <<>> =>
            /\ \A key \in DOMAIN posted[i] :
                  /\ Len(key) = 1
                  /\ \E j \in DOMAIN graph :
                        /\ key = NameKey(graph[j].name)
                        /\ posted[i][key] = <<VersionToString(graph[j].version)>>
            /\ \A j \in DOMAIN graph : NameKey(graph[j].name) \in DOMAIN posted[i]

\* C23: a payload was sent whose keys are the root key "" and install paths.
C23_PathKeys ==
    /\ Len(posted) = 1
    /\ DOMAIN posted[1] = {RootKey, LockPath("A"), LockPath("B")}

----------------------------------------------------------------------------
(* The resolver: committed names, conflicts, bands and optional edges *)

\* C24: once a name is committed with (version, depth), no later step of the
\* loop changes that version or depth: a later work item for the name is
\* skipped, also when its requirement does not match and it lies deeper.
C24_CommittedStays ==
    [][\A n \in DOMAIN resolved : n \in DOMAIN resolved' /\ resolved'[n] = resolved[n]]_vars

\* C24: a committed name was fetched again and now has another version or depth.
C24_Recommitted ==
    /\ snap # <<>>
    /\ \E n \in DOMAIN snap[1].r : resolved[n] # snap[1].r[n]

\* C25: when the item at the head of the queue names a committed package, its
\* requirement does not match the committed version and its depth is not
\* greater than the committed depth, the step appends the one record
\* "Version conflict for <name>: <req> vs <committed>", keeps the committed
\* choices, enqueues nothing, and the loop goes on.
C25_ConflictRecorded ==
    [][(/\ pc = "resolve"
        /\ to_resolve # <<>>
        /\ Head(to_resolve).name \in DOMAIN resolved
        /\ ~Matches(Head(to_resolve).req, resolved[Head(to_resolve).name].version)
        /\ Head(to_resolve).depth <= resolved[Head(to_resolve).name].depth)
       => (/\ conflicts' = Append(conflicts,
                                  [kind |-> "conflict", name |-> Head(to_resolve).name,
                                   req |-> Head(to_resolve).req,
                                   version |-> resolved[Head(to_resolve).name].version])
           /\ resolved' = resolved
           /\ resolved_packages' = resolved_packages
           /\ to_resolve' = Tail(to_resolve)
           /\ pc' = "resolve")]_vars

\* C25: a conflict was recorded and the resolution went on to return its list.
C25_ConflictThenDone ==
    /\ pc = "done"
    /\ \E i \in DOMAIN conflicts : conflicts[i].kind = "conflict"
    /\ packages # <<>>

\* C26: no returned package depends on another returned package of its own
\* depth band, through dependencies, peerDependencies or optionalDependencies.
C26_NoEdgeInsideBand ==
    pc = "done" =>
        \A p, q \in PackageSet :
            p.depth = q.depth => q.info.name \notin DependencyNames(p.info)

\* C26: B and C were both returned at depth 1, B names C, and no committed
\* name was ever fetched again.
C26_SiblingsDepend ==
    /\ pc = "done"
    /\ snap = <<>>
    /\ \E p, q \in PackageSet :
          /\ p.info.name = "B" /\ q.info.name = "C"
          /\ p.depth = 1 /\ q.depth = 1
          /\ "C" \in DependencyNames(p.info)

----------------------------------------------------------------------------
(* Version selection: the resolver over registries and lockfiles that are  *)
(* known from the start, a locked version need not be in the registry      *)

SelectVersions == {V100, V200, V123}
SelectAvailMenu == { {V100}, {V200}, {V100, V200}, {V100, V123} }
SelectLockMenu ==
    {NoMap} \cup { [x \in S |-> v] : S \in {{"A"}, {"A", "B", "D"}}, v \in SelectVersions }

\* The dependency maps of each name, the same for all of its versions: B and
\* C that ask for different majors of D; an optional B beside C; and a B
\* that asks for the root again.
RegistryMenu ==
    { [n \in Names |->
          CASE n = "A" -> Deps(Two("B", Caret(V100), "C", ReqAny), EmptyMap, EmptyMap)
            [] n = "B" -> Deps(One("D", Caret(V100)), EmptyMap, EmptyMap)
            [] n = "C" -> Deps(One("D", Caret(V200)), EmptyMap, EmptyMap)
            [] OTHER -> NoDeps],
      [n \in Names |->
          CASE n = "A" -> Deps(One("C", ReqAny), EmptyMap, One("B", Caret(V200)))
            [] n = "B" -> Deps(EmptyMap, One("C", Caret(V100)), EmptyMap)
            [] OTHER -> NoDeps],
      [n \in Names |->
          CASE n = "A" -> Deps(One("B", Caret(V100)), EmptyMap, EmptyMap)
            [] n = "B" -> Deps(One("A", Caret(V100)), EmptyMap, EmptyMap)
            [] OTHER -> NoDeps] }

InitSelect ==
    /\ root_package = "A"
    /\ locked_versions \in SelectLockMenu
    /\ workspace_packages \in WorkspaceMenu
    /\ \E a1 \in SelectAvailMenu, a2 \in SelectAvailMenu :
          avail = [n \in Names |-> IF n = "A" THEN a1 ELSE a2]
    /\ \E registry \in RegistryMenu :
          info = [k \in Names \X SelectVersions |-> registry[k[1]]]
    /\ to_resolve = <<RootItem>>
    /\ resolved = [x \in {} |-> [version |-> V100, depth |-> 0]]
    /\ resolved_packages = [x \in {} |-> 0]
    /\ conflicts = <<>>
    /\ pc = "resolve"
    /\ packages = <<>>
    /\ snap = <<>>
    /\ runs = <<>>
    /\ IdleInstaller
    /\ IdleCache
    /\ IdleFetch
    /\ IdlePipeline
    /\ IdleText
    /\ IdleAudit
    /\ IdleWriter

SpecSelect == InitSelect /\ [][NextResolve]_vars

\* The item at the head of the queue goes to the registry: it is not skipped
\* at lines 276-292 and no workspace answers it.
Selecting ==
    /\ pc = "resolve"
    /\ to_resolve # <<>>
    /\ LET item == Head(to_resolve)
       IN  /\ item.name \in DOMAIN resolved =>
                /\ ~Matches(item.req, resolved[item.name].version)
                /\ item.depth > resolved[item.name].depth
           /\ item.name \in DOMAIN workspace_packages =>
                ~Matches(item.req, workspace_packages[item.name])

\* The registry versions of the head item's name that satisfy its requirement.
Satisfying ==
    {v \in avail[Head(to_resolve).name] : Matches(Head(to_resolve).req, v)}

\* The step commits the head item's name at version v.
Selected(v) ==
    /\ Head(to_resolve).name \in DOMAIN resolved'
    /\ resolved'[Head(to_resolve).name].version = v
    /\ resolved_packages'[Head(to_resolve).name].info.version = v

\* The step commits nothing: the selection failed.
SelectionFailed ==
    /\ resolved' = resolved
    /\ resolved_packages' = resolved_packages
    /\ pc' = "error" \/ Len(conflicts') = Len(conflicts) + 1

\* C27 as stated: a locked version that satisfies the requirement is
\* selected; otherwise the highest satisfying registry version; and if the
\* registry has none, the selection fails.
C27_LockedElseHighest ==
    [][Selecting =>
         LET name == Head(to_resolve).name
         IN  IF /\ name \in DOMAIN locked_versions
                /\ Matches(Head(to_resolve).req, locked_versions[name])
             THEN Selected(locked_versions[name])
             ELSE IF Satisfying # {}
             THEN \E v \in Satisfying :
                     /\ \A w \in Satisfying : ~VersionLess(v, w)
                     /\ Selected(v)
             ELSE SelectionFailed]_vars

\* C27: a locked version that is one of the registry's versions and satisfies
\* the requirement is selected; otherwise the highest satisfying registry
\* version; and if the registry has none, the selection fails.
C27_LockedInRegistryElseHighest ==
    [][Selecting =>
         LET name == Head(to_resolve).name
         IN  IF /\ name \in DOMAIN locked_versions
                /\ locked_versions[name] \in Satisfying
             THEN Selected(locked_versions[name])
             ELSE IF Satisfying # {}
             THEN \E v \in Satisfying :
                     /\ \A w \in Satisfying : ~VersionLess(v, w)
                     /\ Selected(v)
             ELSE SelectionFailed]_vars

\* C27: B is locked at 1.0.0, the registry has 1.0.0 and 1.2.3 of it, and
\* the lower, locked one was committed for the requirement ^1.0.0.
C27_LockedBelowHighest ==
    /\ "B" \in DOMAIN resolved
    /\ "B" \in DOMAIN locked_versions
    /\ locked_versions["B"] = V100
    /\ avail["B"] = {V100, V123}
    /\ resolved["B"].version = V100

\* q names p in dependencies or peerDependencies with a requirement that p's
\* version satisfies: a regular or peer edge of the resolved graph from q to p.
RequiredEdge(q, p) ==
    \/ /\ p.info.name \in DOMAIN q.info.dependencies
       /\ Matches(q.info.dependencies[p.info.name], p.info.version)
    \/ /\ p.info.name \in DOMAIN q.info.peer_dependencies
       /\ Matches(q.info.peer_dependencies[p.info.name], p.info.version)

\* C28: a returned package is marked optional only if no returned package
\* reaches it through a regular or peer dependency edge.
C28_OptionalOnlyIfAllEdgesOptional ==
    pc = "done" =>
        \A p, q \in PackageSet : p.optional => ~RequiredEdge(q, p)

\* C28: B was returned as optional, C requires it through dependencies, and
\* no committed name was ever fetched again.
C28_RequiredButOptional ==
    /\ pc = "done"
    /\ snap = <<>>
    /\ \E p, q \in PackageSet :
          /\ p.info.name = "B" /\ p.optional
          /\ q.info.name = "C" /\ RequiredEdge(q, p)

\* C29: when the registry has no version for the item at the head of the
\* queue, an optional item is logged to the conflict record and dropped
\* (nothing committed, nothing enqueued, the loop goes on), and a
\* non-optional item ends the resolution with the error.
C29_OptionalFailureDropped ==
    [][(Selecting /\ Satisfying = {}) =>
         IF Head(to_resolve).optional
         THEN /\ conflicts' = Append(conflicts,
                                     [kind |-> "skip", name |-> Head(to_resolve).name,
                                      req |-> Head(to_resolve).req, version |-> NoVersion])
              /\ resolved' = resolved
              /\ resolved_packages' = resolved_packages
              /\ to_resolve' = Tail(to_resolve)
              /\ pc' = "resolve"
         ELSE /\ pc' = "error"
              /\ conflicts' = conflicts
              /\ resolved' = resolved
              /\ resolved_packages' = resolved_packages]_vars

\* C29: the optional B found no version, was logged and left out, and the
\* resolution returned the rest.
C29_SkippedThenDone ==
    /\ pc = "done"
    /\ \E i \in DOMAIN conflicts : conflicts[i].kind = "skip" /\ conflicts[i].name = "B"
    /\ "B" \notin PackageNames(PackageSet)
    /\ "C" \in PackageNames(PackageSet)

----------------------------------------------------------------------------
(* The fetch of one package: which bytes are accepted *)

\* The decision C30 describes for the bytes `data` of `package`; shasum is
\* the SHA-1 of the bytes when it is its hex digest, in either case of letters.
Accepted(package, data) ==
    IF package.integrity # NoSha
    THEN /\ Len(package.integrity) = 2
         /\ package.integrity[1] = "sha512-"
         /\ package.integrity[2] = Sha512Base64(data)
    ELSE IF package.shasum # NoSha
    THEN eq_ignore_ascii_case(Sha1Hex(data), package.shasum)
    ELSE TRUE

\* C30: bytes in hand, cached or downloaded, go on to extraction exactly when
\* integrity is set and is "sha512-" followed by the base64 SHA-512 of the
\* bytes, or integrity is not set and shasum is the SHA-1 of the bytes, or
\* neither is set; extraction is only reached from such a check and unpacks
\* the bytes that passed it.
C30_VerifiedBeforeExtraction ==
    [][/\ (fpc \in {"verify_cached", "verify_fresh"} /\ fpc' # fpc)
           => (fpc' = "extract" <=> Accepted(fpkg, fbytes))
       /\ (fpc' = "extract" /\ fpc # "extract")
           => (fpc \in {"verify_cached", "verify_fresh"} /\ fbytes' = fbytes)
       /\ fhist'.extracted # fhist.extracted
           => (fpc = "extract" /\ fhist'.extracted = fbytes /\ Accepted(fpkg, fbytes))]_vars

\* C30: integrity and shasum are both set, the bytes extracted have the
\* SHA-512 of integrity and another SHA-1 than shasum.
C30_ShasumNotConsulted ==
    /\ fpc = "done"
    /\ fhist.extracted # "none"
    /\ fpkg.integrity # NoSha
    /\ fpkg.shasum # NoSha
    /\ fpkg.shasum # Sha1Hex(fhist.extracted)

----------------------------------------------------------------------------
(* The installer: lifecycle scripts *)

\* The place of a script in the order preinstall, install, postinstall.
ScriptRank(script) ==
    CASE script = "preinstall" -> 1 [] script = "install" -> 2 [] script = "postinstall" -> 3

\* The scripts of package n in that order.
ScriptsInOrder(n) ==
    SelectSeq(<<"preinstall", "install", "postinstall">>,
              LAMBDA script : script \in PkgOf(n).scripts)

\* C31: the scripts of a package start in the order preinstall, install,
\* postinstall, and only when the package is extracted and its bins are
\* linked; a job that ended starts no script, so after a script that exits
\* non-zero (the job ends with an error) no later script runs; a job that
\* succeeds without --ignore-scripts has run all its scripts; with
\* --ignore-scripts no script ever starts.
C31_ScriptsInOrderAfterLinking ==
    [][\A n \in PkgNames :
          /\ \A i, j \in DOMAIN ran'[n] :
                i < j => ScriptRank(ran'[n][i]) < ScriptRank(ran'[n][j])
          /\ ran'[n] # ran[n] =>
                /\ ~ignore_scripts
                /\ n \in node_modules
                /\ \A shim \in PkgOf(n).bins : BinPath(shim) \in written[n]
                /\ job[n] = "scripts"
          /\ (job[n] = "in_script" /\ job'[n] # job[n]) => job'[n] \in {"scripts", "err"}
          /\ job[n] \in {"err", "ok_true", "ok_false"} => ran'[n] = ran[n]
          /\ (job'[n] = "ok_true" /\ ~ignore_scripts /\ ~PkgOf(n).is_workspace)
                => ran'[n] = ScriptsInOrder(n)
          /\ ignore_scripts => ran'[n] = <<>>]_vars

\* C31: the install script of C exited non-zero after preinstall had run, the
\* job failed and postinstall was never started.
C31_FailedAtInstall ==
    /\ "C" \in PkgNames
    /\ job["C"] = "err"
    /\ ran["C"] = <<"preinstall", "install">>
    /\ im_pc \in {"done", "error"}

(***************************************************************************)
(* The cache directory shared with another process                         *)
(***************************************************************************)

\* The two halves fs::write puts down one after the other; "-" is a half that
\* is not there.
Halves(data) ==
    CASE data = "" -> <<"-", "-">>
      [] data = "tgz1_cut" -> <<"tgz1", "-">>
      [] data = "tgz2_cut" -> <<"tgz2", "-">>
      [] data = "tgz1_tgz2" -> <<"tgz1", "tgz2">>
      [] data = "tgz2_tgz1" -> <<"tgz2", "tgz1">>
      [] OTHER -> <<data, data>>

JoinHalves(first, second) ==
    CASE first = "-" -> ""
      [] second = "-" -> IF first = "tgz1" THEN "tgz1_cut" ELSE "tgz2_cut"
      [] first = second -> first
      [] first = "tgz1" -> "tgz1_tgz2"
      [] OTHER -> "tgz2_tgz1"

\* What the path shows after the process wrote: nothing new once the file it
\* holds open was removed.
Written(data) ==
    IF writer.linked
    THEN (FetchPath :> [data |-> data, mtime |-> now]) @@ cache
    ELSE cache

\* cache.rs line 49, fs::write: File::create makes the file or empties it. The
\* process saves bytes that passed verify_tarball_integrity (install.rs 692-697).
WriterOpens(data) ==
    /\ writer.pc = "idle"
    /\ fpc # "idle"
    /\ verify_tarball_integrity(fpkg, data)
    /\ writer' = [pc |-> "opened", data |-> data, linked |-> TRUE]
    /\ cache' = (FetchPath :> [data |-> "", mtime |-> now]) @@ cache
    /\ UNCHANGED <<now, ret>>
    /\ UNCHANGED <<rvars, ivars, fvars, pvars, tvars, avars>>

\* cache.rs line 49, fs::write: write_all puts down the next half at its offset
WriterWrites ==
    /\ writer.pc \in {"opened", "half"}
    /\ LET cur == IF FetchPath \in DOMAIN cache THEN Halves(cache[FetchPath].data)
                  ELSE <<"-", "-">>
       IN  IF writer.pc = "opened"
           THEN /\ cache' = Written(JoinHalves(writer.data, cur[2]))
                /\ writer' = [writer EXCEPT !.pc = "half"]
           ELSE /\ cache' = Written(JoinHalves(cur[1], writer.data))
                /\ writer' = NoWriter
    /\ UNCHANGED <<now, ret>>
    /\ UNCHANGED <<rvars, ivars, fvars, pvars, tvars, avars>>

InitShared == InitFetch

NextShared ==
    \/ NextFetch
    \/ \E data \in Blobs : WriterOpens(data)
    \/ WriterWrites

SpecShared == InitShared /\ [][NextShared]_vars

\* C32: the job never unpacks a blob another process has only partly written:
\* what it unpacks is a blob as some download delivered it.
C32_PartialNeverExtracted ==
    fhist.extracted \in Blobs \cup {"none"}

\* The job read a half-written blob, the SHA-1 check removed it, and the
\* package was downloaded again and unpacked.
C32_PartialDiscarded ==
    /\ fpc = "done"
    /\ fhist.extracted \in Blobs
    /\ downloads = 1
    /\ ret.op = "get"
    /\ ret.result = "none"
    /\ FetchPath \in DOMAIN ret.before
    /\ ret.before[FetchPath].data \in {"tgz1_cut", "tgz2_cut"}
    /\ FetchPath \notin DOMAIN ret.after

-----------------------------------------------------------------------------
(* The resolver: the root of the returned list *)

\* C33: whenever resolve_dependencies returns Ok, the list holds the requested
\* package at depth 0, so the search of lines 1471-1475 finds it.
C33_RootAtDepthZero ==
    pc = "done" =>
        \E p \in PackageSet : p.info.name = root_package /\ p.depth = 0

\* The root lies on a dependency cycle and the resolution has returned it at
\* depth 0.
C33_RootOnCycle ==
    /\ pc = "done"
    /\ \E p \in PackageSet : p.info.name = root_package /\ p.depth = 0
    /\ root_package \in DOMAIN resolved_packages
    /\ \E p \in PackageSet :
           /\ p.info.name # root_package
           /\ root_package \in DependencyNames(p.info)
           /\ p.info.name \in DependencyNames(resolved_packages[root_package].info)

-----------------------------------------------------------------------------
(* The commands: one install after another *)

\* Lists resolve_dependencies returns for a requested package.
ResolvedMenu(package) ==
    CASE package = "A" ->
           {Lone,
            <<ResolvedEntry("A", V100, 0, Deps(One("C", Caret(V100)), EmptyMap, EmptyMap),
                            Plain, {}, {}),
              ResolvedEntry("C", V100, 1, NoDeps, Plain, {}, {})>>}
      [] package = "B" ->
           {<<ResolvedEntry("B", V200, 0, NoDeps, Plain, {}, {})>>,
            <<ResolvedEntry("B", V200, 0, Deps(One("A", Caret(V100)), EmptyMap, EmptyMap),
                            Plain, {}, {}),
              ResolvedEntry("A", V100, 1, NoDeps, Plain, {}, {})>>}
      [] OTHER -> {<<ResolvedEntry(package, V100, 0, NoDeps, Plain, {}, {})>>}

InstallMenu == {"A", "B", "C", "D"}

\* handle_install_command_async(package) from its call to its Ok(()): the list
\* is resolved, every job of install_packages_parallel ends with Ok(true), the
\* manifest gets the caret range and, without --no-package-lock, the lockfile is
\* generated. main.rs 115-117 calls it once for each package of one command
\* line.
InstallCommand(package) ==
    /\ CanRun
    /\ ManifestPath.ok
    /\ options.hoist_strategy = "none"
    /\ \E list \in ResolvedMenu(package) :
          /\ graph' = list
          /\ node_modules' = node_modules \cup {list[i].name : i \in DOMAIN list}
          /\ manifests' = update_package_json(ManifestPath.path, package, list[1].version)
          /\ IF options.no_package_lock
             THEN lockfile' = lockfile
             ELSE lockfile' \in generate_lockfile(list,
                                                 manifests'[RootManifest].dependencies,
                                                 load_workspace_packages)
    /\ cmd' = "install"
    /\ requested' = package
    /\ phist' = [Begun("install") EXCEPT
                     !.lock_writes = IF options.no_package_lock THEN 0 ELSE 1,
                     !.manifest_writes = 1, !.last = "ok"]
    /\ UNCHANGED <<pl_pc, options, nested_dirs, links>>
    /\ UNCHANGED <<ipkgs, im_pc, band, idx, job, permits, bin_links, written,
                   total_installed, ignore_scripts, ran, bulk>>
    /\ UNCHANGED <<rvars, cvars, fvars, tvars, avars, wvars>>

InitSequence ==
    /\ IdleResolver
    /\ IdleCache
    /\ IdleFetch
    /\ IdleInstaller
    /\ IdleText
    /\ IdleAudit
    /\ IdleWriter
    /\ cmd = "none"
    /\ pl_pc = "idle"
    /\ requested = ""
    /\ graph = <<>>
    /\ options \in {Options(FALSE, "", "none"), Options(TRUE, "", "none")}
    /\ \E project \in {Alone, Locked} :
          /\ manifests = project.manifests
          /\ lockfile = project.lockfile
    /\ nested_dirs = {}
    /\ links = {}
    /\ phist = NoCommands

NextSequence ==
    \/ \E package \in InstallMenu : InstallCommand(package)
    \/ \E package \in UninstallMenu : handle_uninstall_command(package)

SpecSequence == InitSequence /\ [][NextSequence]_vars

\* Every command run so far was an install that wrote the lockfile.
OnlyInstalls ==
    /\ phist.ran # <<>>
    /\ ~options.no_package_lock
    /\ \A i \in DOMAIN phist.ran : phist.ran[i] = "install"

\* C34: after installs only, every name of the lockfile's root dependencies
\* has its node_modules/<name> entry in the lockfile's packages.
C34_LockCoversDirectDependencies ==
    OnlyInstalls =>
        \A name \in DOMAIN lockfile.dependencies :
            LockPath(name) \in DOMAIN lockfile.packages

\* Two installs of different packages have run.
C34_TwoInstalls ==
    /\ OnlyInstalls
    /\ Len(phist.ran) = 2
    /\ DOMAIN lockfile.dependencies = {"A", "B"}
    /\ requested = "B"
    /\ LockPath("A") \in DOMAIN lockfile.packages

\* C35: an uninstall that starts with package.json and package-lock.json in
\* sync ends with them in sync, so the drift check of a following ci passes.
C35_UninstallKeepsSync ==
    [][(/\ cmd' = "uninstall"
        /\ phist'.ran # phist.ran
        /\ lockfile # <<>>
        /\ ensure_lockfile_in_sync(lockfile, RootManifest))
           => manifests'[RootManifest].dependencies = lockfile'.dependencies]_vars

\* A installed as a dependency of B was uninstalled, and the two files were in
\* sync before and are in sync after.
C35_UninstalledTransitive ==
    /\ cmd = "uninstall"
    /\ requested = "A"
    /\ phist.start.lockfile # <<>>
    /\ LockPath("A") \in DOMAIN phist.start.lockfile.packages
    /\ phist.start.manifests[RootManifest].dependencies = phist.start.lockfile.dependencies
    /\ ensure_lockfile_in_sync(lockfile, RootManifest)

-----------------------------------------------------------------------------
(* The fetch of one package: what reaches and what stays in the cache *)

-----------------------------------------------------------------------------
(* The resolver: the version of the requested package *)

\* The requested package is no workspace and the lockfile names a version of
\* it that the registry has.
RootLocked ==
    /\ root_package \notin DOMAIN workspace_packages
    /\ root_package \in DOMAIN locked_versions
    /\ locked_versions[root_package] \in avail[root_package]

\* C37: when the lockfile names a registry version of the requested package,
\* the resolution returns the requested package at exactly that version.
C37_RootAtLockedVersion ==
    (pc = "done" /\ RootLocked) =>
        /\ root_package \in PackageNames(PackageSet)
        /\ \A p \in PackageSet :
               p.info.name = root_package => p.info.version = locked_versions[root_package]

\* A is locked at 1.0.0, the registry has 1.0.0 and 1.2.3 of it, and the
\* resolution has returned A at 1.0.0.
C37_RootBelowHighest ==
    /\ pc = "done"
    /\ RootLocked
    /\ locked_versions["A"] = V100
    /\ avail["A"] = {V100, V123}
    /\ \E p \in PackageSet : p.info.name = "A" /\ p.info.version = V100 /\ p.depth = 0

-----------------------------------------------------------------------------
(* The installer: progress of install_packages_parallel *)

WideNames == {"A", "B"}

\* main.rs 115-117 and 88-89: the Err of install_packages_parallel goes up with
\* `?` through handle_install_command_async to main, main returns and the
\* runtime is shut down: the tasks still alive are dropped where they are.
InstallAborted ==
    /\ im_pc = "error"
    /\ im_pc' = "exited"
    /\ job' = [n \in DOMAIN job |->
                  IF job[n] \in Final \cup {"none"} THEN job[n] ELSE "cancelled"]
    /\ bulk' = [bulk EXCEPT !.running = 0]
    /\ permits' = 0
    /\ UNCHANGED <<ipkgs, band, idx, node_modules, bin_links, written, total_installed,
                   ignore_scripts, ran>>
    /\ UNCHANGED <<rvars, cvars, fvars, pvars, tvars, avars, wvars>>

NextLive ==
    \/ NextWide
    \/ InstallAborted

\* One task's steps inside download_and_extract_package.
TaskStep(n) ==
    \/ ValidateOk(n)
    \/ FetchOk(n)
    \/ FetchFail(n)
    \/ Extract(n)
    \/ BinDone(n)
    \/ ScriptsDone(n)

\* The runtime polls every task that can go on, every download, extraction and
\* script ends, and the semaphore hands its permits out in the order of the
\* requests, so a task that waits is not passed over for ever.
LiveFairness ==
    /\ WF_vars(Spawn)
    /\ WF_vars(SpawnBulk)
    /\ WF_vars(Join)
    /\ WF_vars(JoinBulk)
    /\ WF_vars(InstallAborted)
    /\ SF_vars(BulkAcquire)
    /\ WF_vars(BulkFinish)
    /\ \A n \in WideNames : SF_vars(Acquire(n)) /\ WF_vars(TaskStep(n))

SpecLive == InitWide /\ [][NextLive]_vars /\ LiveFairness

\* The task of n has got its permit.
Acquired(n) == job[n] \notin {"none", "spawned", "cancelled"}

\* install_packages_parallel has returned: Ok at line 639, or the Err of `??`.
CallReturned == im_pc \in {"done", "error", "exited"}

\* The call has returned the Err of a task.
CallFailed == im_pc \in {"error", "exited"}

\* While the call and its tasks live, the permits out are those of the tasks
\* inside download_and_extract_package.
PermitsBalance ==
    im_pc # "exited" =>
        permits + Cardinality({n \in WideNames : Acquired(n) /\ job[n] \notin Final})
            + bulk.running = MAX_CONCURRENT_DOWNLOADS

\* C38 as stated: every spawned task gets a permit in the end, every permit
\* comes back when its task ends, and the call returns in the end.
C38_EveryJobAcquires ==
    /\ []PermitsBalance
    /\ \A n \in WideNames : (job[n] = "spawned") ~> Acquired(n)
    /\ (bulk.waiting > 0) ~> (bulk.waiting = 0)
    /\ <>CallReturned

\* C38: every spawned task gets a permit in the end unless the call returns
\* an error first, every permit comes back when its task ends, and the call
\* returns in the end, also with more than 15 packages in a band.
C38_AcquiresOrCallFails ==
    /\ []PermitsBalance
    /\ \A n \in WideNames : (job[n] = "spawned") ~> (Acquired(n) \/ CallFailed)
    /\ (bulk.waiting > 0) ~> (bulk.waiting = 0 \/ CallFailed)
    /\ <>CallReturned

\* A band of more than 15 packages has been installed: tasks had to wait for a
\* permit, and the call has returned Ok.
C38_WideBandDone ==
    /\ im_pc = "done"
    /\ bulk.done > MAX_CONCURRENT_DOWNLOADS
    /\ bulk.waiting = 0
    /\ permits = MAX_CONCURRENT_DOWNLOADS

-----------------------------------------------------------------------------
(* The commands: what ci leaves alone *)

\* This step is one of the ci command: its start, or a step while it runs.
CiStep ==
    \/ cmd' = "ci" /\ phist'.ran # phist.ran
    \/ cmd = "ci" /\ pl_pc # "idle"

\* C39: no step of ci changes a package.json or package-lock.json, whether
\* the command ends with Ok or Err; and a ci that finds no package-lock.json
\* ends at once with that error, whatever the manifest or the workspace
\* option is, and leaves node_modules and the cache as they were.
C39_CiLeavesFilesAlone ==
    [][/\ CiStep => manifests' = manifests /\ lockfile' = lockfile
       /\ (cmd' = "ci" /\ phist'.ran # phist.ran /\ lockfile = <<>>) =>
              /\ pl_pc' = "idle"
              /\ phist'.last = "error"
              /\ phist'.error = "package-lock.json not found"
              /\ UNCHANGED <<node_modules, bin_links, nested_dirs, links, cache>>]_vars

\* ci was run without a lockfile and with -w naming a workspace that does not
\* exist: it failed for the lockfile.
C39_FailedWithoutLockfile ==
    /\ cmd = "ci"
    /\ lockfile = <<>>
    /\ ~ManifestPath.ok
    /\ phist.last = "error"
    /\ phist.error = "package-lock.json not found"

====
